---------------------------- MODULE Spec2Model ----------------------------
(***************************************************************************)
(* Conversational task-routing engine of the marketplace chatbot:          *)
(* AgentOrchestrator.process_message with its session memory, the intent   *)
(* classifier (external model with keyword fallback), the order /          *)
(* complaint / refund / delivery tools over the in-memory DataStore, the   *)
(* product comparison collaborator and the retrieval pipeline.             *)
(*                                                                         *)
(* Python strings that the code inspects character by character (lower(),  *)
(* strip(), substring tests, regular expressions) are modelled as tuples   *)
(* of one-character strings; CharsOf gives the characters of every string  *)
(* the model uses.  Formatted strings (f-strings) are modelled as tuples   *)
(* of their literal pieces and interpolated values.                        *)
(***************************************************************************)
EXTENDS Integers, Sequences, FiniteSets, TLC

-----------------------------------------------------------------------------
(* Bounds of the model *)

\* number of process_message calls started in a behaviour of Spec
MaxCalls == 1
\* process_message calls of a run of several messages
MaxLoopCalls == 2
\* process_message calls of one conversation
MaxWindowCalls == 4
\* process_message calls of a run whose calls must end
MaxLiveCalls == 1
\* number of _add_to_history calls made in a behaviour of SpecHist
MaxAppends == 23
\* number of process starts in a behaviour of SpecInit
MaxStarts == 2
\* number of VectorStore calls made in a behaviour of SpecIndex
MaxIndexCalls == 4
\* longest document and widest chunk of the exhaustive part of SpecChunk
MaxDocLen == 12
MaxChunkSize == 5

-----------------------------------------------------------------------------
(* Strings *)

CharsOf ==
    ("Where is my order ORD-1234?" :> <<"W", "h", "e", "r", "e", " ", "i", "s", " ", "m", "y", " ", "o", "r", "d", "e", "r", " ", "O", "R", "D", "-", "1", "2", "3", "4", "?">>)
    @@ ("I want to return ORD-1234" :> <<"I", " ", "w", "a", "n", "t", " ", "t", "o", " ", "r", "e", "t", "u", "r", "n", " ", "O", "R", "D", "-", "1", "2", "3", "4">>)
    @@ ("refund status ORD-5555" :> <<"r", "e", "f", "u", "n", "d", " ", "s", "t", "a", "t", "u", "s", " ", "O", "R", "D", "-", "5", "5", "5", "5">>)
    @@ ("return ORD-1001 please" :> <<"r", "e", "t", "u", "r", "n", " ", "O", "R", "D", "-", "1", "0", "0", "1", " ", "p", "l", "e", "a", "s", "e">>)
    @@ ("my tv is broken" :> <<"m", "y", " ", "t", "v", " ", "i", "s", " ", "b", "r", "o", "k", "e", "n">>)
    @@ ("refund and shipping cost" :> <<"r", "e", "f", "u", "n", "d", " ", "a", "n", "d", " ", "s", "h", "i", "p", "p", "i", "n", "g", " ", "c", "o", "s", "t">>)
    @@ ("compare 3 and 7" :> <<"c", "o", "m", "p", "a", "r", "e", " ", "3", " ", "a", "n", "d", " ", "7">>)
    @@ ("compare 3 vs 700" :> <<"c", "o", "m", "p", "a", "r", "e", " ", "3", " ", "v", "s", " ", "7", "0", "0">>)
    @@ ("hello" :> <<"h", "e", "l", "l", "o">>)
    @@ ("complaint" :> <<"c", "o", "m", "p", "l", "a", "i", "n", "t">>)
    @@ ("refund" :> <<"r", "e", "f", "u", "n", "d">>)
    @@ (" Delivery\n" :> <<" ", "D", "e", "l", "i", "v", "e", "r", "y", "\n">>)
    @@ ("comparison" :> <<"c", "o", "m", "p", "a", "r", "i", "s", "o", "n">>)
    @@ ("order_status" :> <<"o", "r", "d", "e", "r", "_", "s", "t", "a", "t", "u", "s">>)
    @@ ("refunds" :> <<"r", "e", "f", "u", "n", "d", "s">>)
    @@ ("product_info" :> <<"p", "r", "o", "d", "u", "c", "t", "_", "i", "n", "f", "o">>)
    @@ ("general" :> <<"g", "e", "n", "e", "r", "a", "l">>)
    @@ ("order" :> <<"o", "r", "d", "e", "r">>)
    @@ ("track" :> <<"t", "r", "a", "c", "k">>)
    @@ ("ord-" :> <<"o", "r", "d", "-">>)
    @@ ("problem" :> <<"p", "r", "o", "b", "l", "e", "m">>)
    @@ ("issue" :> <<"i", "s", "s", "u", "e">>)
    @@ ("broken" :> <<"b", "r", "o", "k", "e", "n">>)
    @@ ("damaged" :> <<"d", "a", "m", "a", "g", "e", "d">>)
    @@ ("not working" :> <<"n", "o", "t", " ", "w", "o", "r", "k", "i", "n", "g">>)
    @@ ("return" :> <<"r", "e", "t", "u", "r", "n">>)
    @@ ("money back" :> <<"m", "o", "n", "e", "y", " ", "b", "a", "c", "k">>)
    @@ ("delivery" :> <<"d", "e", "l", "i", "v", "e", "r", "y">>)
    @@ ("shipping" :> <<"s", "h", "i", "p", "p", "i", "n", "g">>)
    @@ ("deliver" :> <<"d", "e", "l", "i", "v", "e", "r">>)
    @@ ("when will" :> <<"w", "h", "e", "n", " ", "w", "i", "l", "l">>)
    @@ ("compare" :> <<"c", "o", "m", "p", "a", "r", "e">>)
    @@ ("vs" :> <<"v", "s">>)
    @@ ("versus" :> <<"v", "e", "r", "s", "u", "s">>)
    @@ ("difference between" :> <<"d", "i", "f", "f", "e", "r", "e", "n", "c", "e", " ", "b", "e", "t", "w", "e", "e", "n">>)
    @@ ("laptop" :> <<"l", "a", "p", "t", "o", "p">>)
    @@ ("phone" :> <<"p", "h", "o", "n", "e">>)
    @@ ("tv" :> <<"t", "v">>)
    @@ ("product" :> <<"p", "r", "o", "d", "u", "c", "t">>)
    @@ ("specs" :> <<"s", "p", "e", "c", "s">>)
    @@ ("features" :> <<"f", "e", "a", "t", "u", "r", "e", "s">>)
    @@ ("price" :> <<"p", "r", "i", "c", "e">>)
    @@ ("want" :> <<"w", "a", "n", "t">>)
    @@ ("request" :> <<"r", "e", "q", "u", "e", "s", "t">>)
    @@ ("initiate" :> <<"i", "n", "i", "t", "i", "a", "t", "e">>)
    @@ ("ORD-" :> <<"O", "R", "D", "-">>)
    @@ ("ORD-1234" :> <<"O", "R", "D", "-", "1", "2", "3", "4">>)
    @@ ("ORD-5555" :> <<"O", "R", "D", "-", "5", "5", "5", "5">>)
    @@ ("ORD-1001" :> <<"O", "R", "D", "-", "1", "0", "0", "1">>)
    @@ ("I'm currently operating in limited mode. I can help you with product information, orders, and more. Please provide your order ID or ask about specific products." :> <<"I", "'", "m", " ", "c", "u", "r", "r", "e", "n", "t", "l", "y", " ", "o", "p", "e", "r", "a", "t", "i", "n", "g", " ", "i", "n", " ", "l", "i", "m", "i", "t", "e", "d", " ", "m", "o", "d", "e", ".", " ", "I", " ", "c", "a", "n", " ", "h", "e", "l", "p", " ", "y", "o", "u", " ", "w", "i", "t", "h", " ", "p", "r", "o", "d", "u", "c", "t", " ", "i", "n", "f", "o", "r", "m", "a", "t", "i", "o", "n", ",", " ", "o", "r", "d", "e", "r", "s", ",", " ", "a", "n", "d", " ", "m", "o", "r", "e", ".", " ", "P", "l", "e", "a", "s", "e", " ", "p", "r", "o", "v", "i", "d", "e", " ", "y", "o", "u", "r", " ", "o", "r", "d", "e", "r", " ", "I", "D", " ", "o", "r", " ", "a", "s", "k", " ", "a", "b", "o", "u", "t", " ", "s", "p", "e", "c", "i", "f", "i", "c", " ", "p", "r", "o", "d", "u", "c", "t", "s", ".">>)

\* the messages users send
Corpus ==
    { "Where is my order ORD-1234?", "I want to return ORD-1234",
      "refund status ORD-5555", "return ORD-1001 please", "my tv is broken",
      "refund and shipping cost", "compare 3 and 7", "compare 3 vs 700",
      "hello" }

\* texts the external model answers to the classification prompt
ModelOutputs ==
    { "complaint", "refund", " Delivery\n", "comparison", "order_status",
      "refunds" }

Digits == {"0", "1", "2", "3", "4", "5", "6", "7", "8", "9"}

DigitValue ==
    ("0" :> 0) @@ ("1" :> 1) @@ ("2" :> 2) @@ ("3" :> 3) @@ ("4" :> 4)
    @@ ("5" :> 5) @@ ("6" :> 6) @@ ("7" :> 7) @@ ("8" :> 8) @@ ("9" :> 9)

UpperToLower ==
    [A |-> "a", B |-> "b", C |-> "c", D |-> "d", E |-> "e", F |-> "f",
     G |-> "g", H |-> "h", I |-> "i", J |-> "j", K |-> "k", L |-> "l",
     M |-> "m", N |-> "n", O |-> "o", P |-> "p", Q |-> "q", R |-> "r",
     S |-> "s", T |-> "t", U |-> "u", V |-> "v", W |-> "w", X |-> "x",
     Y |-> "y", Z |-> "z"]

Letters == DOMAIN UpperToLower \cup {UpperToLower[c] : c \in DOMAIN UpperToLower}

\* characters matched by \w
WordChars == Letters \cup Digits \cup {"_"}

Whitespace == {" ", "\n", "\t", "\r"}

\* str.lower()
Lower(s) ==
    [i \in 1..Len(s) |-> IF s[i] \in DOMAIN UpperToLower
                         THEN UpperToLower[s[i]] ELSE s[i]]

\* str.strip()
Strip(s) ==
    LET keep == {i \in 1..Len(s) : s[i] \notin Whitespace}
    IN  IF keep = {} THEN <<>>
        ELSE LET lo == CHOOSE i \in keep : \A j \in keep : i <= j
                 hi == CHOOSE i \in keep : \A j \in keep : j <= i
             IN  SubSeq(s, lo, hi)

\* Python's  sub in s  on strings
Contains(s, sub) ==
    \E i \in 1..(Len(s) - Len(sub) + 1) : SubSeq(s, i, i + Len(sub) - 1) = sub

\* any(word in s for word in words)
ContainsAny(s, words) == \E w \in words : Contains(s, CharsOf[w])

\* the string whose characters are cs
StringOf(cs) == CHOOSE s \in DOMAIN CharsOf : CharsOf[s] = cs

\* int() of a run of digits
RECURSIVE IntOf(_)
IntOf(ds) ==
    IF ds = <<>> THEN 0
    ELSE 10 * IntOf(SubSeq(ds, 1, Len(ds) - 1)) + DigitValue[ds[Len(ds)]]

-----------------------------------------------------------------------------
(* Intent classifier *)

ValidIntents ==
    { "product_info", "order_status", "complaint", "refund", "delivery",
      "comparison", "general" }

FallbackResponseText ==
    "I'm currently operating in limited mode. I can help you with product information, orders, and more. Please provide your order ID or ask about specific products."

\* the keyword lists of LLMService._simple_intent_classification
IntentKeywords ==
    [order_status |-> {"order", "track", "ord-"},
     complaint |-> {"problem", "issue", "complaint", "broken", "damaged",
                    "not working"},
     refund |-> {"refund", "return", "money back"},
     delivery |-> {"delivery", "shipping", "deliver", "when will"},
     comparison |-> {"compare", "vs", "versus", "difference between"},
     product_info |-> {"laptop", "phone", "tv", "product", "specs",
                       "features", "price"}]

\* a keyword classifier that tests the refund keywords first
SimpleIntentClassificationRefundFirst(message) ==
    LET message_lower == Lower(CharsOf[message])
    IN  IF ContainsAny(message_lower, IntentKeywords.refund)
          THEN "refund"
        ELSE IF ContainsAny(message_lower, IntentKeywords.order_status)
          THEN "order_status"
        ELSE IF ContainsAny(message_lower, IntentKeywords.complaint)
          THEN "complaint"
        ELSE IF ContainsAny(message_lower, IntentKeywords.delivery)
          THEN "delivery"
        ELSE IF ContainsAny(message_lower, IntentKeywords.comparison)
          THEN "comparison"
        ELSE IF ContainsAny(message_lower, IntentKeywords.product_info)
          THEN "product_info"
        ELSE "general"

\* LLMService._simple_intent_classification
SimpleIntentClassification(message) ==
    LET message_lower == Lower(CharsOf[message])
    IN  IF ContainsAny(message_lower, IntentKeywords.order_status)
          THEN "order_status"
        ELSE IF ContainsAny(message_lower, IntentKeywords.complaint)
          THEN "complaint"
        ELSE IF ContainsAny(message_lower, IntentKeywords.refund)
          THEN "refund"
        ELSE IF ContainsAny(message_lower, IntentKeywords.delivery)
          THEN "delivery"
        ELSE IF ContainsAny(message_lower, IntentKeywords.comparison)
          THEN "comparison"
        ELSE IF ContainsAny(message_lower, IntentKeywords.product_info)
          THEN "product_info"
        ELSE "general"

\* _simple_intent_classification of every message of the corpus
KeywordIntent == [m \in Corpus |-> SimpleIntentClassification(m)]

\* a validation that forgets to trim and lowercase the answer
ValidateIntentRaw(response) ==
    IF \E v \in ValidIntents : CharsOf[v] = response
    THEN CHOOSE v \in ValidIntents : CharsOf[v] = response
    ELSE "general"

\* the validation of the model's answer in LLMService.classify_intent:
\* response.strip().lower(), then membership in valid_intents; response
\* is given as characters
ValidateIntent(response) ==
    LET intent == Lower(Strip(response))
    IN  IF \E v \in ValidIntents : CharsOf[v] = intent
        THEN CHOOSE v \in ValidIntents : CharsOf[v] = intent
        ELSE "general"

\* IntentClassifier.extract_order_id: first match of ORD-\d{4}, or ""
OrderIdMatches(s) ==
    {i \in 1..(Len(s) - 7) :
        /\ SubSeq(s, i, i + 3) = CharsOf["ORD-"]
        /\ \A j \in (i + 4)..(i + 7) : s[j] \in Digits}

FirstOrderId(message) ==
    LET s == CharsOf[message]
        matches == OrderIdMatches(s)
    IN  IF matches = {} THEN ""
        ELSE LET i == CHOOSE k \in matches : \A j \in matches : k <= j
             IN  StringOf(SubSeq(s, i, i + 7))

\* extract_order_id of every message of the corpus
OrderIdTable == [m \in Corpus |-> FirstOrderId(m)]

ExtractOrderId(message) == OrderIdTable[message]

\* the matches of \b\d+\b: maximal runs of digits with no word character
\* on either side, as (first, last) positions in order of appearance
NumberRuns(s) ==
    {<<i, j>> \in (1..Len(s)) \X (1..Len(s)) :
        /\ i <= j
        /\ \A k \in i..j : s[k] \in Digits
        /\ (i = 1 \/ s[i - 1] \notin WordChars)
        /\ (j = Len(s) \/ s[j + 1] \notin WordChars)}

RECURSIVE RunsInOrder(_)
RunsInOrder(runs) ==
    IF runs = {} THEN <<>>
    ELSE LET r == CHOOSE x \in runs : \A y \in runs : x[1] <= y[1]
         IN  <<r>> \o RunsInOrder(runs \ {r})

\* IntentClassifier.extract_product_ids
ValidNumbers(message) ==
    LET s == CharsOf[message]
        runs == RunsInOrder(NumberRuns(s))
        values == [k \in 1..Len(runs) |-> IntOf(SubSeq(s, runs[k][1], runs[k][2]))]
    IN  SelectSeq(values, LAMBDA v : 1 <= v /\ v <= 100)

\* extract_product_ids of every message of the corpus
ProductIdsTable == [m \in Corpus |-> ValidNumbers(m)]

ExtractProductIds(message) == ProductIdsTable[message]

\* decimal digits of a natural number, as str() formats it
RECURSIVE DecimalOf(_)
DecimalOf(n) ==
    LET d == CHOOSE c \in Digits : DigitValue[c] = n % 10
    IN  IF n < 10 THEN <<d>> ELSE DecimalOf(n \div 10) \o <<d>>

\* f"{amount:.2f}" of a whole amount
Money(amount) == DecimalOf(amount) \o <<".00">>

\* sep.join(parts) of texts
RECURSIVE Join(_, _)
Join(parts, sep) ==
    IF parts = <<>> THEN <<>>
    ELSE IF Len(parts) = 1 THEN parts[1]
    ELSE parts[1] \o <<sep>> \o Join(Tail(parts), sep)

-----------------------------------------------------------------------------
(* DataStore *)

\* contents of the data files DataStore.initialize loads.  Each file is
\* loaded on its own and nothing relates the lists: the refund and the
\* delivery of ORD-5555 have no order.
SeedOrders ==
    << [order_id |-> "ORD-1001", status |-> "shipped",
        order_date |-> "2024-01-10", total |-> 120, items |-> <<"tv">>,
        customer_name |-> "Ann", expected_delivery |-> "2024-01-20"] >>

SeedRefunds ==
    << [refund_id |-> <<"REF-", "1", "0", "0">>, order_id |-> "ORD-5555",
        amount |-> 80, status |-> "approved", reason |-> "Customer request",
        requested_date |-> "2024-01-02",
        expected_completion |-> "2024-01-09"] >>

SeedDeliveries ==
    << [order_id |-> "ORD-5555", current_status |-> "in transit",
        estimated_delivery |-> "2024-01-21", tracking_number |-> "TRK-1",
        carrier |-> "UPS", tracking_history |-> <<>>] >>

\* contents of products.json
Products ==
    << [id |-> 3, name |-> "Laptop Pro", rating |-> 4],
       [id |-> 7, name |-> "Phone X", rating |-> 5] >>

\* DataStore.__init__ followed by DataStore.initialize
InitialDataStore ==
    [orders |-> SeedOrders, complaints |-> <<>>, refunds |-> SeedRefunds,
     deliveries |-> SeedDeliveries, complaint_counter |-> 100,
     refund_counter |-> 100]

\* Python's None
None == [none |-> TRUE]

\* first record of a list whose key field equals the value, else None
FirstWith(list, key, value) ==
    LET hits == {i \in 1..Len(list) : list[i][key] = value}
    IN  IF hits = {} THEN None
        ELSE list[CHOOSE i \in hits : \A j \in hits : i <= j]

\* DataStore.get_order
GetOrder(ds, order_id) == FirstWith(ds.orders, "order_id", order_id)

\* DataStore.get_refund
GetRefund(ds, order_id) == FirstWith(ds.refunds, "order_id", order_id)

\* DataStore.get_delivery_status
GetDelivery(ds, order_id) == FirstWith(ds.deliveries, "order_id", order_id)

\* DataStore.create_complaint: the new store and the new complaint.  The
\* created_at / updated_at stamps of the wall clock are left out.
CreateComplaint(ds, order_id, issue, description) ==
    LET counter == ds.complaint_counter + 1
        complaint == [complaint_id |-> <<"CMP-">> \o DecimalOf(counter),
                      order_id |-> order_id, issue |-> issue,
                      description |-> description, status |-> "open"]
    IN  [store |-> [ds EXCEPT !.complaint_counter = counter,
                              !.complaints = Append(@, complaint)],
         record |-> complaint]

\* DataStore.create_refund; the dates of the wall clock are symbolic
CreateRefund(ds, order_id, amount, reason) ==
    LET counter == ds.refund_counter + 1
        refund == [refund_id |-> <<"REF-">> \o DecimalOf(counter),
                   order_id |-> order_id, amount |-> amount,
                   status |-> "pending", reason |-> reason,
                   requested_date |-> "today",
                   expected_completion |-> "today+7"]
    IN  [store |-> [ds EXCEPT !.refund_counter = counter,
                              !.refunds = Append(@, refund)],
         record |-> refund]

-----------------------------------------------------------------------------
(* Tools.  Each operator gives the result bag, the data store after the   *)
(* call and the DataStore operations the call made.                       *)

\* OrderTool.get_order_status
GetOrderStatus(ds, order_id) ==
    LET order == GetOrder(ds, order_id)
        base == <<"Order ", order_id, " is currently ", order.status, ".">>
        response == [success |-> TRUE, order_id |-> order.order_id,
                     status |-> order.status, order_date |-> order.order_date,
                     total |-> order.total, items |-> order.items,
                     customer_name |-> order.customer_name, message |-> base]
    IN  IF order = None
        THEN [result |-> [success |-> FALSE,
                          message |-> <<"Order ", order_id,
                                        " not found. Please check the order ID.">>],
              store |-> ds, ops |-> <<"get_order">>]
        ELSE IF "expected_delivery" \in DOMAIN order
        THEN [result |-> [expected_delivery |-> order.expected_delivery,
                          message |-> base \o <<" Expected delivery: ",
                                                 order.expected_delivery>>]
                         @@ response,
              store |-> ds, ops |-> <<"get_order">>]
        ELSE [result |-> response, store |-> ds, ops |-> <<"get_order">>]

\* a complaint tool that does not verify the order
ToolCreateComplaintUnverified(ds, order_id, issue, description) ==
    LET made == CreateComplaint(ds, order_id, issue, description)
    IN  [result |-> [success |-> TRUE,
                     complaint_id |-> made.record.complaint_id,
                     order_id |-> order_id,
                     status |-> made.record.status,
                     message |-> <<"I'm sorry to hear about the issue with your order. ",
                                   "I've created complaint ">>
                                 \o made.record.complaint_id
                                 \o <<". ", "Our support team will contact you within 24 hours to resolve this.">>],
         store |-> made.store,
         ops |-> <<"create_complaint">>]

\* ComplaintTool.create_complaint
ToolCreateComplaint(ds, order_id, issue, description) ==
    LET order == GetOrder(ds, order_id)
        made == CreateComplaint(ds, order_id, issue, description)
    IN  IF order = None
        THEN [result |-> [success |-> FALSE,
                          message |-> <<"Order ", order_id,
                                        " not found. Cannot create complaint.">>],
              store |-> ds, ops |-> <<"get_order">>]
        ELSE [result |-> [success |-> TRUE,
                          complaint_id |-> made.record.complaint_id,
                          order_id |-> order_id,
                          status |-> made.record.status,
                          message |-> <<"I'm sorry to hear about the issue with your order. ",
                                        "I've created complaint ">>
                                      \o made.record.complaint_id
                                      \o <<". ", "Our support team will contact you within 24 hours to resolve this.">>],
              store |-> made.store,
              ops |-> <<"get_order", "create_complaint">>]

\* the status_messages table of RefundTool.get_refund_status
RefundStatusMessage(refund) ==
    IF refund.status = "pending"
      THEN <<"Your refund request is being processed.">>
    ELSE IF refund.status = "approved"
      THEN <<"Your refund has been approved and is being processed.">>
    ELSE IF refund.status = "processed"
      THEN <<"Your refund of $">> \o Money(refund.amount) \o <<" has been processed.">>
    ELSE IF refund.status = "completed"
      THEN <<"Your refund of $">> \o Money(refund.amount) \o <<" has been completed.">>
    ELSE <<"Refund status: ", refund.status>>

\* RefundTool.get_refund_status
GetRefundStatus(ds, order_id) ==
    LET refund == GetRefund(ds, order_id)
        order == GetOrder(ds, order_id)
    IN  IF refund = None
        THEN IF order = None
             THEN [result |-> [success |-> FALSE,
                               message |-> <<"Order ", order_id, " not found.">>],
                   store |-> ds, ops |-> <<"get_refund", "get_order">>]
             ELSE [result |-> [success |-> TRUE, has_refund |-> FALSE,
                               message |-> <<"No refund request found for order ",
                                             order_id, ". ",
                                             "Would you like to initiate a return?">>],
                   store |-> ds, ops |-> <<"get_refund", "get_order">>]
        ELSE [result |-> [success |-> TRUE, has_refund |-> TRUE,
                          refund |-> refund,
                          message |->
                              IF "expected_completion" \in DOMAIN refund
                              THEN RefundStatusMessage(refund)
                                   \o <<" Expected completion: ",
                                        refund.expected_completion>>
                              ELSE RefundStatusMessage(refund)],
              store |-> ds, ops |-> <<"get_refund">>]

\* an initiate_refund that does not look for an existing refund
InitiateRefundNoExistingCheck(ds, order_id, reason) ==
    LET order == GetOrder(ds, order_id)
        made == CreateRefund(ds, order_id, order.total, reason)
    IN  IF order = None
        THEN [result |-> [success |-> FALSE,
                          message |-> <<"Order ", order_id, " not found.">>],
              store |-> ds, ops |-> <<"get_order">>]
        ELSE [result |-> [success |-> TRUE,
                          refund_id |-> made.record.refund_id,
                          amount |-> made.record.amount,
                          message |-> <<"Refund request ">>
                                      \o made.record.refund_id
                                      \o <<" has been initiated. ",
                                           "Your refund of $">>
                                      \o Money(made.record.amount)
                                      \o <<" will be processed within 5-7 business days.">>],
              store |-> made.store,
              ops |-> <<"get_order", "get_refund", "create_refund">>]

\* RefundTool.initiate_refund
InitiateRefund(ds, order_id, reason) ==
    LET order == GetOrder(ds, order_id)
        existing_refund == GetRefund(ds, order_id)
        made == CreateRefund(ds, order_id, order.total, reason)
    IN  IF order = None
        THEN [result |-> [success |-> FALSE,
                          message |-> <<"Order ", order_id, " not found.">>],
              store |-> ds, ops |-> <<"get_order">>]
        ELSE IF existing_refund # None
        THEN [result |-> [success |-> FALSE,
                          message |-> <<"A refund request already exists for order ",
                                        order_id, " ", "(Status: ",
                                        existing_refund.status, ")">>],
              store |-> ds, ops |-> <<"get_order", "get_refund">>]
        ELSE [result |-> [success |-> TRUE,
                          refund_id |-> made.record.refund_id,
                          amount |-> made.record.amount,
                          message |-> <<"Refund request ">>
                                      \o made.record.refund_id
                                      \o <<" has been initiated. ",
                                           "Your refund of $">>
                                      \o Money(made.record.amount)
                                      \o <<" will be processed within 5-7 business days.">>],
              store |-> made.store,
              ops |-> <<"get_order", "get_refund", "create_refund">>]

\* DeliveryTool.get_delivery_status
GetDeliveryStatus(ds, order_id) ==
    LET delivery == GetDelivery(ds, order_id)
        order == GetOrder(ds, order_id)
    IN  IF delivery = None
        THEN IF order = None
             THEN [result |-> [success |-> FALSE,
                               message |-> <<"Order ", order_id, " not found.">>],
                   store |-> ds, ops |-> <<"get_delivery_status", "get_order">>]
             ELSE [result |-> [success |-> TRUE,
                               message |-> <<"Delivery information not yet available for order ",
                                             order_id, ".">>],
                   store |-> ds, ops |-> <<"get_delivery_status", "get_order">>]
        ELSE [result |-> [success |-> TRUE, delivery |-> delivery,
                          tracking_summary |-> delivery.tracking_history,
                          message |-> <<"Order ", order_id, " is currently ",
                                        delivery.current_status, ". ",
                                        "Estimated delivery: ",
                                        delivery.estimated_delivery, ". ",
                                        "Tracking number: ",
                                        delivery.tracking_number, " (",
                                        delivery.carrier, ")">>],
              store |-> ds, ops |-> <<"get_delivery_status">>]

-----------------------------------------------------------------------------
(* Embedding provider and vector index.  A vector is its length (dim) and *)
(* a position on a line; the squared distance of two vectors is the       *)
(* square of the difference of their positions.                           *)

\* EmbeddingService.get_dimension
GetDimension(use_openai) == IF use_openai THEN 1536 ELSE 384

\* positions the embedding model gives to queries
QueryPositions == {3}

\* the chunks of the documents directory, with the positions of their
\* embeddings
BuiltChunks ==
    << [text |-> <<"Laptop Pro has 16GB RAM.">>, pos |-> 0,
        metadata |-> [doc_type |-> "product_manuals", title |-> "Laptop Pro",
                      product_id |-> 3, category |-> "laptops"]],
       [text |-> <<"Q: ", "Can I return an item?", "\nA: ", "Within 30 days.">>,
        pos |-> 2,
        metadata |-> [doc_type |-> "faqs", title |-> "Can I return an item?",
                      product_id |-> None, category |-> None]],
       [text |-> <<"Shipping takes 3-5 days.">>, pos |-> 7,
        metadata |-> [doc_type |-> "policies", title |-> "Shipping",
                      product_id |-> None, category |-> None]] >>

\* VectorStore.__init__: index is the sequence of the vectors of the
\* faiss index and index_d the dimension that index was made with
NewVectorStore(dimension) ==
    [dimension |-> dimension, index_d |-> dimension, index |-> <<>>,
     documents |-> <<>>, metadata |-> <<>>]

\* whether VectorStore.add_documents raises: np.array refuses vectors of
\* unequal lengths and faiss refuses vectors whose length is not the
\* dimension of the index
AddDocumentsRaises(vs, embeddings, documents, metadata) ==
    /\ embeddings # <<>>
    /\ documents # <<>>
    /\ \E i \in 1..Len(embeddings) : embeddings[i].dim # vs.index_d

\* an add_documents that stores the texts and the metadata before it
\* hands the vectors to the index
AddDocumentsTextsFirst(vs, embeddings, documents, metadata) ==
    IF embeddings = <<>> \/ documents = <<>> THEN vs
    ELSE IF AddDocumentsRaises(vs, embeddings, documents, metadata)
    THEN [vs EXCEPT !.documents = @ \o documents,
                    !.metadata = @ \o metadata]
    ELSE [vs EXCEPT !.index = @ \o embeddings,
                    !.documents = @ \o documents,
                    !.metadata = @ \o metadata]

\* VectorStore.add_documents: the store after the call, also when the
\* call raises
AddDocuments(vs, embeddings, documents, metadata) ==
    IF embeddings = <<>> \/ documents = <<>> THEN vs
    ELSE IF AddDocumentsRaises(vs, embeddings, documents, metadata) THEN vs
    ELSE [vs EXCEPT !.index = @ \o embeddings,
                    !.documents = @ \o documents,
                    !.metadata = @ \o metadata]

\* the store RAGPipeline.initialize leaves behind when the documents
\* directory holds the chunks above
BuiltVectorStore(use_openai) ==
    LET d == GetDimension(use_openai)
    IN  AddDocuments(NewVectorStore(d),
                     [i \in 1..Len(BuiltChunks) |->
                         [dim |-> d, pos |-> BuiltChunks[i].pos]],
                     [i \in 1..Len(BuiltChunks) |-> BuiltChunks[i].text],
                     [i \in 1..Len(BuiltChunks) |-> BuiltChunks[i].metadata])

Distance(v, w) == (v.pos - w.pos) * (v.pos - w.pos)

Min(a, b) == IF a <= b THEN a ELSE b

\* the n entries of the index nearest to the query, nearest first
RECURSIVE Nearest(_, _, _, _)
Nearest(index, candidates, query, n) ==
    IF n = 0 \/ candidates = {} THEN <<>>
    ELSE LET best == CHOOSE i \in candidates : \A j \in candidates :
                        \/ Distance(index[i], query) < Distance(index[j], query)
                        \/ /\ Distance(index[i], query) = Distance(index[j], query)
                           /\ i <= j
         IN  <<best>> \o Nearest(index, candidates \ {best}, query, n - 1)

\* the positions VectorStore.search reads from the index
SearchIndices(vs, query_embedding, top_k) ==
    Nearest(vs.index, 1..Len(vs.index), query_embedding,
            Min(top_k, Len(vs.index)))

\* whether VectorStore.search raises: faiss refuses a query whose length
\* is not the dimension of the index, and self.metadata[idx] raises for a
\* position the metadata list does not have
SearchRaises(vs, query_embedding, top_k) ==
    /\ Len(vs.index) > 0
    /\ \/ query_embedding.dim # vs.index_d
       \/ LET indices == SearchIndices(vs, query_embedding, top_k)
          IN  \E k \in 1..Len(indices) :
                  /\ indices[k] <= Len(vs.documents)
                  /\ indices[k] > Len(vs.metadata)

\* a search that returns the first entries of the index as they were
\* added
SearchInsertionOrder(vs, query_embedding, top_k) ==
    IF Len(vs.index) = 0 THEN <<>>
    ELSE LET indices == [k \in 1..Min(top_k, Len(vs.index)) |-> k]
             found == SelectSeq(indices, LAMBDA idx : idx <= Len(vs.documents))
         IN  [k \in 1..Len(found) |->
                 <<vs.documents[found[k]], vs.metadata[found[k]],
                   Distance(vs.index[found[k]], query_embedding)>>]

\* VectorStore.search
Search(vs, query_embedding, top_k) ==
    IF Len(vs.index) = 0 THEN <<>>
    ELSE LET indices == Nearest(vs.index, 1..Len(vs.index), query_embedding,
                                Min(top_k, Len(vs.index)))
             found == SelectSeq(indices, LAMBDA idx : idx <= Len(vs.documents))
         IN  [k \in 1..Len(found) |->
                 <<vs.documents[found[k]], vs.metadata[found[k]],
                   Distance(vs.index[found[k]], query_embedding)>>]

\* VectorStore.clear
Clear(vs) ==
    [vs EXCEPT !.index_d = vs.dimension, !.index = <<>>,
               !.documents = <<>>, !.metadata = <<>>]

\* the directory VECTOR_STORE_PATH without files
NoFile == [exists |-> FALSE]

EmptyDisk == [index_file |-> NoFile, data_file |-> NoFile]

\* what can happen to a save: it writes both files, write_index fails, or
\* writing data.pkl fails after index.faiss was written
SaveOutcomes == {"saved", "index_write_failed", "data_write_failed"}

\* VectorStore.save: the files after the call; it raises unless the
\* outcome is saved
Save(vs, files, outcome) ==
    IF outcome = "index_write_failed" THEN files
    ELSE LET index_file == [exists |-> TRUE, d |-> vs.index_d,
                            vectors |-> vs.index]
         IN  IF outcome = "data_write_failed"
             THEN [files EXCEPT !.index_file = index_file]
             ELSE [index_file |-> index_file,
                   data_file |-> [exists |-> TRUE,
                                  documents |-> vs.documents,
                                  metadata |-> vs.metadata,
                                  dimension |-> vs.dimension]]

\* what can happen to a load whose two files exist: both are read,
\* read_index fails, or unpickling data.pkl fails after the index was read
LoadOutcomes == {"loaded", "index_read_failed", "data_read_failed"}

\* whether VectorStore.load returns True
LoadSucceeds(files, outcome) ==
    /\ files.index_file.exists
    /\ files.data_file.exists
    /\ outcome = "loaded"

\* a load that leaves the metadata list of the store as it was
LoadKeepsMetadata(vs, files, outcome) ==
    IF ~files.index_file.exists \/ ~files.data_file.exists THEN vs
    ELSE IF outcome = "index_read_failed" THEN vs
    ELSE LET read == [vs EXCEPT !.index_d = files.index_file.d,
                                !.index = files.index_file.vectors]
         IN  IF outcome = "data_read_failed" THEN read
             ELSE [read EXCEPT !.documents = files.data_file.documents,
                               !.dimension = files.data_file.dimension]

\* VectorStore.load: the store after the call.  self.index is assigned
\* before data.pkl is opened.
Load(vs, files, outcome) ==
    IF ~files.index_file.exists \/ ~files.data_file.exists THEN vs
    ELSE IF outcome = "index_read_failed" THEN vs
    ELSE LET read == [vs EXCEPT !.index_d = files.index_file.d,
                                !.index = files.index_file.vectors]
         IN  IF outcome = "data_read_failed" THEN read
             ELSE [read EXCEPT !.documents = files.data_file.documents,
                               !.metadata = files.data_file.metadata,
                               !.dimension = files.data_file.dimension]

-----------------------------------------------------------------------------
(* Comparison collaborator *)

\* GraphDatabase._generate_recommendation
GenerateRecommendation(products) ==
    IF products = <<>> THEN <<>>
    ELSE IF Len(products) = 1
    THEN <<products[1].name, " is a great choice!">>
    ELSE LET best == CHOOSE i \in 1..Len(products) :
                        \A j \in 1..Len(products) :
                            \/ products[i].rating > products[j].rating
                            \/ /\ products[i].rating = products[j].rating
                               /\ i <= j
         IN  <<"Based on ratings and features, ", products[best].name, " ",
               "(rated ">> \o DecimalOf(products[best].rating)
             \o <<"/5) appears to be the best option.">>

\* GraphDatabase.compare_products, by way of _fallback_comparison (no
\* graph driver is configured)
CompareProducts(product_ids) ==
    LET wanted == {product_ids[k] : k \in 1..Len(product_ids)}
        products == SelectSeq(Products, LAMBDA p : p.id \in wanted)
    IN  IF products = <<>>
        THEN [products |-> <<>>, comparison |-> <<>>,
              recommendation |-> <<"Products not found.">>]
        ELSE [products |-> products,
              comparison |->
                  << [feature |-> "rating",
                      values |-> [k \in 1..Len(products) |->
                                     <<products[k].name, products[k].rating>>]] >>,
              recommendation |-> GenerateRecommendation(products)]

-----------------------------------------------------------------------------
(* Documents and chunks of the RAG pipeline.  The text of a document is   *)
(* the sequence of its characters.                                        *)

\* the defaults of _chunk_documents
chunk_size_default == 500
overlap_default == 50

\* str(doc) of the documents that have neither content nor answer
DictRepr(doc) ==
    <<"{", "'", "t", "i", "t", "l", "e", "'", ":", " ", "'">> \o doc.title
    \o <<"'", ",", " ", "'", "d", "o", "c", "_", "t", "y", "p", "e", "'", ":",
         " ", "'">> \o doc.doc_type \o <<"'", "}">>

\* the text _chunk_documents takes from a document
DocumentText(doc) ==
    IF "content" \in DOMAIN doc THEN doc.content
    ELSE IF "answer" \in DOMAIN doc
    THEN <<"Q", ":", " ">>
         \o (IF "question" \in DOMAIN doc THEN doc.question ELSE <<>>)
         \o <<"\n", "A", ":", " ">> \o doc.answer
    ELSE DictRepr(doc)

\* the metadata _chunk_documents gives to every chunk of a document
ChunkMetadata(doc) ==
    [doc_type |-> IF "doc_type" \in DOMAIN doc THEN doc.doc_type
                  ELSE <<"u", "n", "k", "n", "o", "w", "n">>,
     title |-> IF "title" \in DOMAIN doc THEN doc.title
               ELSE IF "question" \in DOMAIN doc THEN doc.question
               ELSE <<"U", "n", "t", "i", "t", "l", "e", "d">>,
     product_id |-> IF "product_id" \in DOMAIN doc THEN doc.product_id
                    ELSE None,
     category |-> IF "category" \in DOMAIN doc THEN doc.category ELSE None]

\* a chunking loop that stops with the first window that reaches the end
\* of the text
RECURSIVE ChunksFromStopAtEnd(_, _, _, _, _)
ChunksFromStopAtEnd(text, metadata, i, chunk_size, overlap) ==
    IF i >= Len(text) THEN <<>>
    ELSE << [text |-> SubSeq(text, i + 1, Min(i + chunk_size, Len(text))),
             metadata |-> metadata] >>
         \o (IF i + chunk_size >= Len(text) THEN <<>>
             ELSE ChunksFromStopAtEnd(text, metadata,
                                      i + (chunk_size - overlap),
                                      chunk_size, overlap))

\* a chunking loop whose windows advance by the chunk size
RECURSIVE ChunksFromNoOverlap(_, _, _, _, _)
ChunksFromNoOverlap(text, metadata, i, chunk_size, overlap) ==
    IF i >= Len(text) THEN <<>>
    ELSE << [text |-> SubSeq(text, i + 1, Min(i + chunk_size, Len(text))),
             metadata |-> metadata] >>
         \o ChunksFromNoOverlap(text, metadata, i + chunk_size,
                                chunk_size, overlap)

\* the loop  for i in range(0, len(text), chunk_size - overlap)  of
\* _chunk_documents, from start i on: the chunk is text[i:i + chunk_size]
RECURSIVE ChunksFrom(_, _, _, _, _)
ChunksFrom(text, metadata, i, chunk_size, overlap) ==
    IF i >= Len(text) THEN <<>>
    ELSE << [text |-> SubSeq(text, i + 1, Min(i + chunk_size, Len(text))),
             metadata |-> metadata] >>
         \o ChunksFrom(text, metadata, i + (chunk_size - overlap),
                       chunk_size, overlap)

\* RAGPipeline._chunk_documents
RECURSIVE ChunkDocuments(_, _, _)
ChunkDocuments(documents, chunk_size, overlap) ==
    IF documents = <<>> THEN <<>>
    ELSE ChunksFrom(DocumentText(documents[1]), ChunkMetadata(documents[1]),
                    0, chunk_size, overlap)
         \o ChunkDocuments(Tail(documents), chunk_size, overlap)

-----------------------------------------------------------------------------
(* Retrieval *)

\* what EmbeddingService.embed_text does with a query: it raises, or it
\* gives the query a position
EmbedOutcomes ==
    {[raised |-> TRUE, pos |-> 0]}
    \cup {[raised |-> FALSE, pos |-> p] : p \in QueryPositions}

\* the TOP_K_RESULTS default of RAGPipeline.__init__
top_k_default == 3

\* RAGPipeline.retrieve with a top_k: emb is the outcome of embed_text,
\* a vector of the dimension of the embedding service
Retrieve(vs, emb, top_k) ==
    IF emb.raised THEN [raised |-> TRUE, results |-> <<>>]
    ELSE LET query_embedding == [dim |-> emb.dim, pos |-> emb.pos]
         IN  IF SearchRaises(vs, query_embedding, top_k)
             THEN [raised |-> TRUE, results |-> <<>>]
             ELSE [raised |-> FALSE,
                   results |-> Search(vs, query_embedding, top_k)]

\* RAGPipeline.retrieve without a top_k
RetrieveDefault(vs, emb) == Retrieve(vs, emb, top_k_default)

-----------------------------------------------------------------------------
(* Building and restoring the index: RAGPipeline.initialize *)

\* the position the embedding model gives to a text: a function of the
\* text alone
EmbedPos(text) == Len(text)

\* EmbeddingService.embed_batch when it does not raise: one vector of the
\* dimension of the service for each text
EmbedBatch(use_openai, texts) ==
    [i \in 1..Len(texts) |->
        [dim |-> GetDimension(use_openai), pos |-> EmbedPos(texts[i])]]

\* RAGPipeline._build_vector_store: the store and the files after it,
\* whether it raised, and the steps it took
BuildVectorStore(vs, files, use_openai, documents, embed_raises, save_outcome) ==
    IF documents = <<>>
    THEN [store |-> vs, files |-> files, raised |-> FALSE,
          log |-> <<"load_documents">>]
    ELSE LET chunks == ChunkDocuments(documents, chunk_size_default,
                                      overlap_default)
             texts == [i \in 1..Len(chunks) |-> chunks[i].text]
             metadata == [i \in 1..Len(chunks) |-> chunks[i].metadata]
             embeddings == EmbedBatch(use_openai, texts)
             added == AddDocuments(vs, embeddings, texts, metadata)
         IN  IF embed_raises
             THEN [store |-> vs, files |-> files, raised |-> TRUE,
                   log |-> <<"load_documents", "chunk", "embed_batch">>]
             ELSE IF AddDocumentsRaises(vs, embeddings, texts, metadata)
             THEN [store |-> vs, files |-> files, raised |-> TRUE,
                   log |-> <<"load_documents", "chunk", "embed_batch",
                             "add_documents">>]
             ELSE [store |-> added,
                   files |-> Save(added, files, save_outcome),
                   raised |-> save_outcome # "saved",
                   log |-> <<"load_documents", "chunk", "embed_batch",
                             "add_documents", "save">>]

\* an initialize that rebuilds whatever the restore gave
InitializeAlwaysBuilds(use_openai, files, load_outcome, documents, embed_raises, save_outcome) ==
    LET fresh == NewVectorStore(GetDimension(use_openai))
        loaded == Load(fresh, files, load_outcome)
        built == BuildVectorStore(loaded, files, use_openai, documents,
                                  embed_raises, save_outcome)
    IN  [store |-> built.store, files |-> built.files,
         raised |-> built.raised,
         restored |-> LoadSucceeds(files, load_outcome),
         log |-> <<"load">> \o built.log]

\* RAGPipeline.initialize: the store and the files after it, whether it
\* raised, whether the index was restored, and the steps it took
Initialize(use_openai, files, load_outcome, documents, embed_raises, save_outcome) ==
    LET fresh == NewVectorStore(GetDimension(use_openai))
        loaded == Load(fresh, files, load_outcome)
    IN  IF LoadSucceeds(files, load_outcome)
        THEN [store |-> loaded, files |-> files, raised |-> FALSE,
              restored |-> TRUE, log |-> <<"load">>]
        ELSE LET built == BuildVectorStore(loaded, files, use_openai,
                                           documents, embed_raises,
                                           save_outcome)
             IN  [store |-> built.store, files |-> built.files,
                  raised |-> built.raised, restored |-> FALSE,
                  log |-> <<"load">> \o built.log]

-----------------------------------------------------------------------------
(* Handlers of the orchestrator.  A handler gives the result bag, the     *)
(* data store after it, the DataStore operations it made (ops), the       *)
(* identifier lists it handed to the comparison collaborator (compared),  *)
(* the top_k of the retrievals it made (retrieved), and whether it raised.*)

EmptyDict == [k \in {} |-> TRUE]

NoResult == [unset |-> TRUE]

Raised(ds, top_k) ==
    [result |-> NoResult, store |-> ds, ops |-> <<>>, compared |-> <<>>,
     retrieved |-> <<top_k>>, raised |-> TRUE]

\* AgentOrchestrator._handle_product_info
HandleProductInfo(ds, vs, message, emb) ==
    LET r == Retrieve(vs, emb, 3)
        results == r.results
        context_parts == [k \in 1..Len(results) |-> results[k][1]]
        sources == [k \in 1..Len(results) |-> results[k][2].title]
    IN  IF r.raised THEN Raised(ds, 3)
        ELSE [result |-> [context |-> IF context_parts # <<>>
                                      THEN Join(context_parts, "\n\n")
                                      ELSE <<"No specific information found.">>,
                          sources |-> sources,
                          metadata |-> [num_results |-> Len(results)]],
              store |-> ds, ops |-> <<>>, compared |-> <<>>,
              retrieved |-> <<3>>, raised |-> FALSE]

RECURSIVE GeneralContext(_)
GeneralContext(results) ==
    IF results = <<>> THEN <<>>
    ELSE results[1][1] \o <<"\n\n">> \o GeneralContext(Tail(results))

\* AgentOrchestrator._handle_general
HandleGeneral(ds, vs, message, emb) ==
    LET r == Retrieve(vs, emb, 2)
        results == r.results
        sources == [k \in 1..Len(results) |-> results[k][2].title]
    IN  IF r.raised THEN Raised(ds, 2)
        ELSE [result |-> [context |-> GeneralContext(results),
                          sources |-> IF sources # <<>> THEN sources ELSE None,
                          metadata |-> EmptyDict],
              store |-> ds, ops |-> <<>>, compared |-> <<>>,
              retrieved |-> <<2>>, raised |-> FALSE]

\* the literal clarification of each handler that needs an order identifier
AskOrderId ==
    [order_status |->
        <<"Please provide your order ID (format: ORD-XXXX) to check status.">>,
     complaint |->
        <<"Please provide your order ID (format: ORD-XXXX) to file a complaint.">>,
     refund |->
        <<"Please provide your order ID (format: ORD-XXXX) to check refund status.">>,
     delivery |->
        <<"Please provide your order ID (format: ORD-XXXX) to track delivery.">>]

\* the early return of a handler that found no order identifier
Clarify(ds, intent) ==
    [result |-> [success |-> FALSE, message |-> AskOrderId[intent]],
     store |-> ds, ops |-> <<>>, compared |-> <<>>, retrieved |-> <<>>,
     raised |-> FALSE]

\* the outcome of a handler that called a tool
Called(tool) ==
    [result |-> tool.result, store |-> tool.store, ops |-> tool.ops,
     compared |-> <<>>, retrieved |-> <<>>, raised |-> FALSE]

\* AgentOrchestrator._handle_order_status
HandleOrderStatus(ds, message) ==
    LET order_id == ExtractOrderId(message)
    IN  IF order_id = "" THEN Clarify(ds, "order_status")
        ELSE Called(GetOrderStatus(ds, order_id))

\* AgentOrchestrator._handle_complaint
HandleComplaint(ds, message) ==
    LET order_id == ExtractOrderId(message)
    IN  IF order_id = "" THEN Clarify(ds, "complaint")
        ELSE Called(ToolCreateComplaint(ds, order_id, "Product issue", message))

\* the test of _handle_refund for a new refund, of every message of the
\* corpus
RequestsRefund ==
    [m \in Corpus |->
        ContainsAny(Lower(CharsOf[m]), {"want", "request", "initiate", "return"})]

\* a refund handler without the early return for a missing identifier
HandleRefundNoCheck(ds, message) ==
    LET order_id == ExtractOrderId(message)
    IN  IF RequestsRefund[message]
        THEN Called(InitiateRefund(ds, order_id, "Customer request"))
        ELSE Called(GetRefundStatus(ds, order_id))

\* AgentOrchestrator._handle_refund
HandleRefund(ds, message) ==
    LET order_id == ExtractOrderId(message)
    IN  IF order_id = "" THEN Clarify(ds, "refund")
        ELSE IF RequestsRefund[message]
        THEN Called(InitiateRefund(ds, order_id, "Customer request"))
        ELSE Called(GetRefundStatus(ds, order_id))

\* AgentOrchestrator._handle_delivery
HandleDelivery(ds, message) ==
    LET order_id == ExtractOrderId(message)
    IN  IF order_id = "" THEN Clarify(ds, "delivery")
        ELSE Called(GetDeliveryStatus(ds, order_id))

\* a comparison handler that falls back to the general path
HandleComparisonGeneralFallback(ds, vs, message, emb) ==
    LET product_ids == ExtractProductIds(message)
    IN  IF Len(product_ids) < 2 THEN HandleGeneral(ds, vs, message, emb)
        ELSE [result |-> [comparison |-> CompareProducts(product_ids),
                          metadata |-> [product_ids |-> product_ids]],
              store |-> ds, ops |-> <<>>, compared |-> <<product_ids>>,
              retrieved |-> <<>>, raised |-> FALSE]

\* AgentOrchestrator._handle_comparison
HandleComparison(ds, vs, message, emb) ==
    LET product_ids == ExtractProductIds(message)
    IN  IF Len(product_ids) < 2 THEN HandleProductInfo(ds, vs, message, emb)
        ELSE [result |-> [comparison |-> CompareProducts(product_ids),
                          metadata |-> [product_ids |-> product_ids]],
              store |-> ds, ops |-> <<>>, compared |-> <<product_ids>>,
              retrieved |-> <<>>, raised |-> FALSE]

\* AgentOrchestrator._route_to_handler
RouteToHandler(intent, ds, vs, message, emb) ==
    IF intent = "product_info" THEN HandleProductInfo(ds, vs, message, emb)
    ELSE IF intent = "order_status" THEN HandleOrderStatus(ds, message)
    ELSE IF intent = "complaint" THEN HandleComplaint(ds, message)
    ELSE IF intent = "refund" THEN HandleRefund(ds, message)
    ELSE IF intent = "delivery" THEN HandleDelivery(ds, message)
    ELSE IF intent = "comparison" THEN HandleComparison(ds, vs, message, emb)
    ELSE HandleGeneral(ds, vs, message, emb)

-----------------------------------------------------------------------------
(* LLM service *)

\* what a call of the external chat model does: it raises, or it answers
\* a text
ClassificationOutcomes ==
    {[raised |-> TRUE, text |-> ""]}
    \cup {[raised |-> FALSE, text |-> o] : o \in ModelOutputs}

GenerationOutcomes ==
    { [raised |-> TRUE, text |-> <<>>],
      [raised |-> FALSE, text |-> <<"Here is what I found.">>] }

\* LLMService.generate_response, as characters: without a client and on
\* any error of the call it answers the fallback text; it never raises
GenerateLLMResponse(client, llm) ==
    IF ~client THEN CharsOf[FallbackResponseText]
    ELSE IF llm.raised THEN CharsOf[FallbackResponseText]
    ELSE Strip(CharsOf[llm.text])

\* the try block of LLMService.classify_intent, of every outcome of the
\* model call
ModelIntent ==
    [llm \in ClassificationOutcomes |->
        ValidateIntent(GenerateLLMResponse(TRUE, llm))]

\* a classify_intent whose except branch is entered when the model call
\* raises
ClassifyIntentKeywordOnError(client, message, llm) ==
    IF ~client \/ llm.raised THEN KeywordIntent[message]
    ELSE ModelIntent[llm]

\* LLMService.classify_intent.  generate_response raises nothing, so the
\* except branch of classify_intent is never entered.
ClassifyIntent(client, message, llm) ==
    IF ~client THEN KeywordIntent[message]
    ELSE ModelIntent[llm]

\* a generate_with_history that answers the apology of a failed call when
\* the model call raises
GenerateWithHistoryApologyOnError(client, messages, llm) ==
    IF ~client THEN <<FallbackResponseText>>
    ELSE IF llm.raised
    THEN <<"I apologize, but I encountered an error processing your request. ">>
    ELSE llm.text

\* LLMService.generate_with_history
GenerateWithHistory(client, messages, llm) ==
    IF ~client THEN <<FallbackResponseText>>
    ELSE IF llm.raised THEN <<FallbackResponseText>>
    ELSE llm.text

-----------------------------------------------------------------------------
(* Session memory and response composition *)

max_history == 10

\* _add_to_history trimming to the oldest entries instead of the newest
AddToHistoryKeepsOldest(log, role, content) ==
    LET appended_log == Append(log, [role |-> role, content |-> content])
    IN  IF Len(appended_log) > max_history * 2
        THEN SubSeq(appended_log, 1, max_history * 2)
        ELSE appended_log

\* AgentOrchestrator._add_to_history, on the log of one session
AddToHistory(log, role, content) ==
    LET appended_log == Append(log, [role |-> role, content |-> content])
    IN  IF Len(appended_log) > max_history * 2
        THEN SubSeq(appended_log, Len(appended_log) - max_history * 2 + 1,
                    Len(appended_log))
        ELSE appended_log

\* a _get_recent_history that takes the oldest messages of the log
GetRecentHistoryOldest(history, max_messages) ==
    IF Len(history) > max_messages
    THEN SubSeq(history, 1, max_messages)
    ELSE history

\* AgentOrchestrator._get_recent_history
GetRecentHistory(history, max_messages) ==
    IF Len(history) > max_messages
    THEN SubSeq(history, Len(history) - max_messages + 1, Len(history))
    ELSE history

SystemPersona ==
    <<"You are a helpful AI assistant for TechPro Electronics, an electronics e-commerce company. Provide accurate, friendly, and concise responses. Use the provided context to answer questions. If you don't have enough information, ask for clarification.">>

\* context_parts that leave the comparison out
ContextPartsNoComparison(data) ==
    (IF "context" \in DOMAIN data
     THEN << <<"Relevant Information:\n">> \o data.context >> ELSE <<>>)
    \o (IF "order_id" \in DOMAIN data
        THEN << <<"Order ID: ", data.order_id>> >> ELSE <<>>)
    \o (IF "status" \in DOMAIN data
        THEN << <<"Status: ", data.status>> >> ELSE <<>>)

\* the context_parts of AgentOrchestrator._generate_response
ContextParts(data) ==
    (IF "context" \in DOMAIN data
     THEN << <<"Relevant Information:\n">> \o data.context >> ELSE <<>>)
    \o (IF "comparison" \in DOMAIN data /\ data.comparison.products # <<>>
        THEN << <<"Comparing products: ">>
                \o [k \in 1..Len(data.comparison.products) |->
                       data.comparison.products[k].name],
                <<"Recommendation: ">> \o data.comparison.recommendation >>
        ELSE <<>>)
    \o (IF "order_id" \in DOMAIN data
        THEN << <<"Order ID: ", data.order_id>> >> ELSE <<>>)
    \o (IF "status" \in DOMAIN data
        THEN << <<"Status: ", data.status>> >> ELSE <<>>)

\* the messages AgentOrchestrator._generate_response hands to the model
BuildPrompt(message, data, history) ==
    LET context_parts == ContextParts(data)
    IN  << [role |-> "system", content |-> SystemPersona] >>
        \o GetRecentHistory(history, 6)
        \o (IF context_parts # <<>>
            THEN << [role |-> "system",
                     content |-> <<"Context for answering:\n">>
                                 \o Join(context_parts, "\n\n")] >>
            ELSE <<>>)
        \o << [role |-> "user", content |-> <<message>>] >>

\* a composer that uses a ready-made message only for failures
GenerateResponseFailuresOnly(client, message, data, history, llm) ==
    IF "success" \in DOMAIN data /\ data.success = FALSE
    THEN [text |-> IF "message" \in DOMAIN data THEN data.message
                   ELSE <<"I couldn't process that request.">>,
          called |-> FALSE, prompt |-> <<>>]
    ELSE [text |-> GenerateWithHistory(client,
                                       BuildPrompt(message, data, history), llm),
          called |-> TRUE,
          prompt |-> BuildPrompt(message, data, history)]

\* AgentOrchestrator._generate_response: the response text, whether the
\* generative model was called, and the messages it was called with
GenerateResponse(client, message, data, history, llm) ==
    IF "message" \in DOMAIN data
    THEN [text |-> data.message, called |-> FALSE, prompt |-> <<>>]
    ELSE IF "success" \in DOMAIN data /\ data.success = FALSE
    THEN [text |-> <<"I couldn't process that request.">>, called |-> FALSE,
          prompt |-> <<>>]
    ELSE [text |-> GenerateWithHistory(client,
                                       BuildPrompt(message, data, history), llm),
          called |-> TRUE,
          prompt |-> BuildPrompt(message, data, history)]

Apology ==
    <<"I apologize, but I encountered an error processing your request. ",
      "Please try again or rephrase your question.">>

\* an except branch that puts the failure detail into the response text
FailedResponseLeaksDetail(error) ==
    [response |-> <<"Error: ", error>>, intent |-> "error", sources |-> <<>>,
     metadata |-> [error |-> error]]

\* the ChatResponse of the except branch of process_message
FailedResponse(error) ==
    [response |-> Apology, intent |-> "error", sources |-> <<>>,
     metadata |-> [error |-> error]]

\* the ChatResponse process_message returns
ChatResponse(response_text, intent, data) ==
    [response |-> response_text, intent |-> intent,
     sources |-> IF "sources" \in DOMAIN data THEN data.sources ELSE <<>>,
     metadata |-> IF "metadata" \in DOMAIN data THEN data.metadata
                  ELSE EmptyDict]

-----------------------------------------------------------------------------
(* State *)

Sessions == {"s1", "s2"}

\* the tasks that run process_message
Tasks == {1, 2}

VARIABLES
    api_key,         \* whether OPENAI_API_KEY is set: LLMService.client
    conversations,   \* AgentOrchestrator.conversations
    appended,        \* per session, every message _add_to_history was given
    data_store,      \* the DataStore
    vector_store,    \* the VectorStore of the RAG pipeline
    task,            \* per task, the locals of its process_message call
    calls,           \* number of process_message calls started
    chunking,        \* a call of _chunk_documents: its arguments and result
    disk,            \* the files of VECTOR_STORE_PATH
    pipeline,        \* the RAGPipeline: its position and what it has done
    index_call,      \* the latest call of a VectorStore method
    snapshot         \* the store as it was when save last wrote both files

vars == <<api_key, conversations, appended, data_store, vector_store, task,
          calls, chunking, disk, pipeline, index_call, snapshot>>

\* a task that is not running process_message.  Of its call, besides the
\* locals: what the classifier's model call did (model_called, model_raised,
\* model_text), the embedding of its retrieval, whether the composer reached
\* generate_with_history (composed_by_model) and with which messages
\* (prompt), whether the model call of the composer raised
\* (generation_raised), and the number of messages _add_to_history had been
\* given for the session when it recorded the user turn (user_index)
IdleTask ==
    [pc |-> "idle", session_id |-> "", message |-> "", intent |-> "",
     data |-> NoResult, response_text |-> <<>>, result |-> NoResult,
     model_called |-> FALSE, model_raised |-> FALSE, model_text |-> "",
     embedding |-> [raised |-> FALSE, pos |-> 0, dim |-> 0],
     ops |-> <<>>, compared |-> <<>>, retrieved |-> <<>>,
     composed_by_model |-> FALSE, prompt |-> <<>>,
     generation_raised |-> FALSE, user_index |-> 0]

\* no call of _chunk_documents
IdleChunking ==
    [pc |-> "idle", doc_len |-> 0, chunk_size |-> 0, overlap |-> 0,
     chunks |-> <<>>]

\* a RAGPipeline before initialize.  Of its latest initialize: whether it
\* raised, whether the index was restored, the steps taken, whether both
\* files existed, whether they could be read, whether documents were found
IdlePipeline ==
    [pc |-> "created", starts |-> 0, raised |-> FALSE, restored |-> FALSE,
     log |-> <<>>, files_present |-> FALSE, load_outcome |-> "",
     found_documents |-> FALSE, files_before |-> EmptyDisk]

\* no call of a VectorStore method yet
NoCall == [op |-> "none", n |-> 0]

\* the files do not hold the state of one save
NoSnapshot == [taken |-> FALSE]

Init ==
    /\ api_key \in BOOLEAN
    /\ conversations = [s \in Sessions |-> <<>>]
    /\ appended = [s \in Sessions |-> <<>>]
    /\ data_store = InitialDataStore
    /\ vector_store \in {NewVectorStore(GetDimension(api_key)),
                         BuiltVectorStore(api_key)}
    /\ task = [t \in Tasks |-> IdleTask]
    /\ calls = 0
    /\ chunking = IdleChunking
    /\ disk = EmptyDisk
    /\ pipeline = IdlePipeline
    /\ index_call = NoCall
    /\ snapshot = NoSnapshot

-----------------------------------------------------------------------------
(* process_message, one action for each stretch between two awaits *)

\* whether a task is between the first and the last statement of
\* process_message
InCall(t) == task[t].pc \notin {"idle", "returned", "failed"}

\* a process_message that starts while another call is suspended at one of
\* its awaits
ProcessMessageStartWhileBusy(t, s, m) ==
    /\ ~InCall(t)
    /\ t = (calls % Cardinality(Tasks)) + 1
    /\ s = "s2" => appended["s1"] # <<>>
    /\ calls' = calls + 1
    /\ conversations' =
           [conversations EXCEPT ![s] = AddToHistory(@, "user", <<m>>)]
    /\ appended' =
           [appended EXCEPT ![s] = Append(@, [role |-> "user", content |-> <<m>>])]
    /\ task' = [task EXCEPT ![t] =
                   [IdleTask EXCEPT !.pc = "received", !.session_id = s,
                                    !.message = m,
                                    !.user_index = Len(appended[s]) + 1]]
    /\ UNCHANGED <<chunking, disk, pipeline, index_call, snapshot>>
    /\ UNCHANGED <<api_key, data_store, vector_store>>

\* a process_message that records the user turn in the log of every session
ProcessMessageStartSharedLog(t, s, m) ==
    /\ \A u \in Tasks : ~InCall(u)
    /\ t = (calls % Cardinality(Tasks)) + 1
    /\ s = "s2" => appended["s1"] # <<>>
    /\ calls' = calls + 1
    /\ conversations' =
           [x \in Sessions |-> AddToHistory(conversations[x], "user", <<m>>)]
    /\ appended' =
           [appended EXCEPT ![s] = Append(@, [role |-> "user", content |-> <<m>>])]
    /\ task' = [task EXCEPT ![t] =
                   [IdleTask EXCEPT !.pc = "received", !.session_id = s,
                                    !.message = m,
                                    !.user_index = Len(appended[s]) + 1]]
    /\ UNCHANGED <<chunking, disk, pipeline, index_call, snapshot>>
    /\ UNCHANGED <<api_key, data_store, vector_store>>

\* a process_message that does not record the user turn when it starts
ProcessMessageStartNoRecord(t, s, m) ==
    /\ \A u \in Tasks : ~InCall(u)
    /\ t = (calls % Cardinality(Tasks)) + 1
    /\ s = "s2" => appended["s1"] # <<>>
    /\ calls' = calls + 1
    /\ task' = [task EXCEPT ![t] =
                   [IdleTask EXCEPT !.pc = "received", !.session_id = s,
                                    !.message = m,
                                    !.user_index = Len(appended[s]) + 1]]
    /\ UNCHANGED <<chunking, disk, pipeline, index_call, snapshot>>
    /\ UNCHANGED <<api_key, data_store, vector_store, conversations,
                   appended>>

\* process_message is called: the user turn is recorded.  No await of
\* process_message suspends (each awaits a coroutine whose body calls the
\* synchronous OpenAI client, the embedding model and the stores directly),
\* so the event loop starts a call only when no other call is under way.
ProcessMessageStart(t, s, m) ==
    /\ \A u \in Tasks : ~InCall(u)
    \* tasks and sessions are interchangeable: they are taken in order
    /\ t = (calls % Cardinality(Tasks)) + 1
    /\ s = "s2" => appended["s1"] # <<>>
    /\ calls' = calls + 1
    /\ conversations' =
           [conversations EXCEPT ![s] = AddToHistory(@, "user", <<m>>)]
    /\ appended' =
           [appended EXCEPT ![s] = Append(@, [role |-> "user", content |-> <<m>>])]
    /\ task' = [task EXCEPT ![t] =
                   [IdleTask EXCEPT !.pc = "received", !.session_id = s,
                                    !.message = m,
                                    !.user_index = Len(appended[s]) + 1]]
    /\ UNCHANGED <<chunking, disk, pipeline, index_call, snapshot>>
    /\ UNCHANGED <<api_key, data_store, vector_store>>

ReceiveMessage(t, s, m) ==
    /\ calls < MaxCalls
    /\ ProcessMessageStart(t, s, m)

\* step 1: the intent classifier answers
Classify(t, llm) ==
    /\ task[t].pc = "received"
    /\ task' = [task EXCEPT ![t].pc = "classified",
                            ![t].intent = ClassifyIntent(api_key, task[t].message, llm),
                            ![t].model_called = api_key,
                            ![t].model_raised = api_key /\ llm.raised,
                            ![t].model_text = IF api_key THEN llm.text ELSE ""]
    /\ UNCHANGED <<chunking, disk, pipeline, index_call, snapshot>>
    /\ UNCHANGED <<api_key, conversations, appended, data_store, vector_store,
                   calls>>

\* a process_message without the except branch: the exception of a handler
\* leaves it and no response is made
RouteReraises(t, emb) ==
    /\ task[t].pc = "classified"
    /\ LET query == [raised |-> emb.raised, pos |-> emb.pos,
                     dim |-> GetDimension(api_key)]
           out == RouteToHandler(task[t].intent, data_store, vector_store,
                                 task[t].message, query)
       IN  /\ data_store' = out.store
           /\ task' = [task EXCEPT
                  ![t].pc = IF out.raised THEN "raised" ELSE "routed",
                  ![t].data = out.result,
                  ![t].ops = out.ops,
                  ![t].compared = out.compared,
                  ![t].retrieved = out.retrieved,
                  ![t].embedding = IF out.retrieved # <<>> THEN query ELSE @]
    /\ UNCHANGED <<chunking, disk, pipeline, index_call, snapshot>>
    /\ UNCHANGED <<api_key, conversations, appended, vector_store, calls>>

\* step 2: the handler of the intent runs; an exception it raises ends
\* process_message in its except branch
Route(t, emb) ==
    /\ task[t].pc = "classified"
    /\ LET query == [raised |-> emb.raised, pos |-> emb.pos,
                     dim |-> GetDimension(api_key)]
           out == RouteToHandler(task[t].intent, data_store, vector_store,
                                 task[t].message, query)
       IN  /\ data_store' = out.store
           /\ task' = [task EXCEPT
                  ![t].pc = IF out.raised THEN "failed" ELSE "routed",
                  ![t].data = out.result,
                  ![t].ops = out.ops,
                  ![t].compared = out.compared,
                  ![t].retrieved = out.retrieved,
                  ![t].embedding = IF out.retrieved # <<>> THEN query ELSE @,
                  ![t].result = IF out.raised
                                THEN FailedResponse("embedding failed")
                                ELSE @]
    /\ UNCHANGED <<chunking, disk, pipeline, index_call, snapshot>>
    /\ UNCHANGED <<api_key, conversations, appended, vector_store, calls>>

\* step 3: the response text is composed
Compose(t, llm) ==
    /\ task[t].pc = "routed"
    /\ LET g == GenerateResponse(api_key, task[t].message, task[t].data,
                                 conversations[task[t].session_id], llm)
       IN  task' = [task EXCEPT ![t].pc = "composed",
                                ![t].response_text = g.text,
                                ![t].composed_by_model = g.called,
                                ![t].prompt = g.prompt,
                                ![t].generation_raised =
                                    g.called /\ api_key /\ llm.raised]
    /\ UNCHANGED <<chunking, disk, pipeline, index_call, snapshot>>
    /\ UNCHANGED <<api_key, conversations, appended, data_store, vector_store,
                   calls>>

\* a process_message that returns the response without recording it
RecordAndReturnNoRecord(t) ==
    /\ task[t].pc = "composed"
    /\ task' = [task EXCEPT ![t].pc = "returned",
                            ![t].result = ChatResponse(task[t].response_text,
                                                       task[t].intent,
                                                       task[t].data)]
    /\ UNCHANGED <<chunking, disk, pipeline, index_call, snapshot>>
    /\ UNCHANGED <<api_key, data_store, vector_store, calls, conversations,
                   appended>>

\* the assistant turn is recorded and the response returned
RecordAndReturn(t) ==
    /\ task[t].pc = "composed"
    /\ conversations' =
           [conversations EXCEPT ![task[t].session_id] =
               AddToHistory(@, "assistant", task[t].response_text)]
    /\ appended' =
           [appended EXCEPT ![task[t].session_id] =
               Append(@, [role |-> "assistant",
                          content |-> task[t].response_text])]
    /\ task' = [task EXCEPT ![t].pc = "returned",
                            ![t].result = ChatResponse(task[t].response_text,
                                                       task[t].intent,
                                                       task[t].data)]
    /\ UNCHANGED <<chunking, disk, pipeline, index_call, snapshot>>
    /\ UNCHANGED <<api_key, data_store, vector_store, calls>>

Next ==
    \/ \E t \in Tasks, s \in Sessions, m \in Corpus : ReceiveMessage(t, s, m)
    \/ \E t \in Tasks, llm \in ClassificationOutcomes : Classify(t, llm)
    \/ \E t \in Tasks, emb \in EmbedOutcomes : Route(t, emb)
    \/ \E t \in Tasks, llm \in GenerationOutcomes : Compose(t, llm)
    \/ \E t \in Tasks : RecordAndReturn(t)

Spec == Init /\ [][Next]_vars

-----------------------------------------------------------------------------
(* Several messages, in one session or in two, one call after the other   *)
(* as the event loop runs them: refund requests and refund status         *)
(* questions on the DataStore the sessions share, and a greeting          *)

LoopCorpus ==
    {"return ORD-1001 please", "refund status ORD-5555", "hello"}

\* the classifier's model answers refund or complaint, or its call raises
LoopClassifications ==
    {o \in ClassificationOutcomes :
        o.raised \/ o.text \in {"refund", "complaint"}}

InitLoop ==
    /\ api_key \in BOOLEAN
    /\ conversations = [s \in Sessions |-> <<>>]
    /\ appended = [s \in Sessions |-> <<>>]
    /\ data_store = InitialDataStore
    /\ vector_store = BuiltVectorStore(api_key)
    /\ task = [t \in Tasks |-> IdleTask]
    /\ calls = 0
    /\ chunking = IdleChunking
    /\ disk = EmptyDisk
    /\ pipeline = IdlePipeline
    /\ index_call = NoCall
    /\ snapshot = NoSnapshot

LoopReceiveMessage(t, s, m) ==
    /\ calls < MaxLoopCalls
    /\ ProcessMessageStart(t, s, m)

NextLoop ==
    \/ \E t \in Tasks, s \in Sessions, m \in LoopCorpus :
           LoopReceiveMessage(t, s, m)
    \/ \E t \in Tasks, llm \in LoopClassifications : Classify(t, llm)
    \/ \E t \in Tasks, emb \in EmbedOutcomes : Route(t, emb)
    \/ \E t \in Tasks, llm \in GenerationOutcomes : Compose(t, llm)
    \/ \E t \in Tasks : RecordAndReturn(t)

SpecLoop == InitLoop /\ [][NextLoop]_vars

-----------------------------------------------------------------------------
(* Calls that proceed: the messages of the loop and a comparison, every   *)
(* external call returning or raising                                     *)

LiveCorpus == LoopCorpus \cup {"compare 3 and 7", "my tv is broken"}

LiveReceiveMessage(t, s, m) ==
    /\ calls < MaxLiveCalls
    /\ ProcessMessageStart(t, s, m)

\* a step of the call that is under way
CallStep ==
    \E t \in Tasks :
        \/ \E llm \in ClassificationOutcomes : Classify(t, llm)
        \/ \E emb \in EmbedOutcomes : Route(t, emb)
        \/ \E llm \in GenerationOutcomes : Compose(t, llm)
        \/ RecordAndReturn(t)

NextLive ==
    \/ \E t \in Tasks, s \in Sessions, m \in LiveCorpus :
           LiveReceiveMessage(t, s, m)
    \/ CallStep

\* Every external call returns or raises, and the event loop runs the
\* coroutine on: the call under way takes its next step.
CallsProceed == WF_vars(CallStep)

SpecLive == InitLoop /\ [][NextLive]_vars /\ CallsProceed

-----------------------------------------------------------------------------
(* One conversation: a session that sends the same greeting again and     *)
(* again, long enough for the log to outgrow the window of the composer   *)

\* the classifier's model answers refund, or its call raises
WindowClassifications ==
    {o \in ClassificationOutcomes : o.raised \/ o.text = "refund"}

InitWindow ==
    /\ api_key \in BOOLEAN
    /\ conversations = [s \in Sessions |-> <<>>]
    /\ appended = [s \in Sessions |-> <<>>]
    /\ data_store = InitialDataStore
    /\ vector_store = BuiltVectorStore(api_key)
    /\ task = [t \in Tasks |-> IdleTask]
    /\ calls = 0
    /\ chunking = IdleChunking
    /\ disk = EmptyDisk
    /\ pipeline = IdlePipeline
    /\ index_call = NoCall
    /\ snapshot = NoSnapshot

WindowReceiveMessage(t) ==
    /\ calls < MaxWindowCalls
    /\ ProcessMessageStart(t, "s1", "hello")

NextWindow ==
    \/ \E t \in Tasks : WindowReceiveMessage(t)
    \/ \E t \in Tasks, llm \in WindowClassifications : Classify(t, llm)
    \/ \E t \in Tasks, emb \in EmbedOutcomes : Route(t, emb)
    \/ \E t \in Tasks, llm \in GenerationOutcomes : Compose(t, llm)
    \/ \E t \in Tasks : RecordAndReturn(t)

SpecWindow == InitWindow /\ [][NextWindow]_vars

-----------------------------------------------------------------------------
(* The history of one session under appends in any order of user and     *)
(* assistant turns, which includes every order the calls of the event    *)
(* loop produce; the steps between the appends are left out and the      *)
(* content of each message is the number of the append.                  *)

TotalAppended ==
    LET RECURSIVE Sum(_)
        Sum(S) == IF S = {} THEN 0
                  ELSE LET s == CHOOSE x \in S : TRUE
                       IN  Len(appended[s]) + Sum(S \ {s})
    IN  Sum(Sessions)

HistUserTurn(t, s) ==
    /\ task[t].pc \in {"idle", "returned"}
    /\ TotalAppended < MaxAppends
    /\ conversations' =
           [conversations EXCEPT ![s] =
               AddToHistory(@, "user", DecimalOf(TotalAppended + 1))]
    /\ appended' =
           [appended EXCEPT ![s] =
               Append(@, [role |-> "user",
                          content |-> DecimalOf(TotalAppended + 1)])]
    /\ task' = [task EXCEPT ![t].pc = "composed", ![t].session_id = s]
    /\ UNCHANGED <<chunking, disk, pipeline, index_call, snapshot>>
    /\ UNCHANGED <<api_key, data_store, vector_store, calls>>

HistAssistantTurn(t) ==
    /\ task[t].pc = "composed"
    /\ TotalAppended < MaxAppends
    /\ conversations' =
           [conversations EXCEPT ![task[t].session_id] =
               AddToHistory(@, "assistant", DecimalOf(TotalAppended + 1))]
    /\ appended' =
           [appended EXCEPT ![task[t].session_id] =
               Append(@, [role |-> "assistant",
                          content |-> DecimalOf(TotalAppended + 1)])]
    /\ task' = [task EXCEPT ![t].pc = "returned"]
    /\ UNCHANGED <<chunking, disk, pipeline, index_call, snapshot>>
    /\ UNCHANGED <<api_key, data_store, vector_store, calls>>

NextHist ==
    \/ \E t \in Tasks : HistUserTurn(t, "s1")
    \/ \E t \in Tasks : HistAssistantTurn(t)

SpecHist == Init /\ [][NextHist]_vars

-----------------------------------------------------------------------------
(* _chunk_documents on one document, for every length, chunk size and     *)
(* overlap of the bounds and for the lengths around the defaults          *)

\* a document whose text has doc_len characters, each named by its
\* position
DocumentOfLength(doc_len) ==
    [content |-> [i \in 1..doc_len |-> i], doc_type |-> "product_manuals",
     title |-> "Manual", product_id |-> 3, category |-> "laptops"]

ChunkingArguments ==
    {[doc_len |-> l, chunk_size |-> w, overlap |-> o] :
        l \in 0..MaxDocLen, w \in 1..MaxChunkSize, o \in 0..(MaxChunkSize - 1)}
    \cup {[doc_len |-> l, chunk_size |-> chunk_size_default,
           overlap |-> overlap_default] : l \in {30, 450, 500, 520, 920}}

InitChunk ==
    /\ api_key = FALSE
    /\ conversations = [s \in Sessions |-> <<>>]
    /\ appended = [s \in Sessions |-> <<>>]
    /\ data_store = InitialDataStore
    /\ vector_store = NewVectorStore(GetDimension(FALSE))
    /\ task = [t \in Tasks |-> IdleTask]
    /\ calls = 0
    /\ disk = EmptyDisk
    /\ pipeline = IdlePipeline
    /\ index_call = NoCall
    /\ snapshot = NoSnapshot
    /\ \E a \in ChunkingArguments :
           /\ a.overlap < a.chunk_size
           /\ chunking = [pc |-> "called", doc_len |-> a.doc_len,
                          chunk_size |-> a.chunk_size, overlap |-> a.overlap,
                          chunks |-> <<>>]

\* _chunk_documents runs on the document
ChunkDocumentsCall ==
    /\ chunking.pc = "called"
    /\ chunking' =
           [chunking EXCEPT
               !.pc = "returned",
               !.chunks = ChunkDocuments(<<DocumentOfLength(chunking.doc_len)>>,
                                         chunking.chunk_size, chunking.overlap)]
    /\ UNCHANGED <<api_key, conversations, appended, data_store, vector_store,
                   task, calls, disk, pipeline, index_call, snapshot>>

NextChunk == ChunkDocumentsCall

SpecChunk == InitChunk /\ [][NextChunk]_vars

-----------------------------------------------------------------------------
(* The VectorStore by itself: calls of its methods in any order, with     *)
(* well-formed and ill-formed arguments, on a store and the files of      *)
(* VECTOR_STORE_PATH                                                      *)

Dimensions == {GetDimension(FALSE), GetDimension(TRUE)}

\* the arguments of add_documents: lists of equal lengths, lists of
\* unequal lengths, empty lists, vectors of either dimension and of both
AddArguments ==
    LET v(d, q) == [dim |-> d, pos |-> q]
        a(e, d, m) == [embeddings |-> e, documents |-> d, metadata |-> m]
    IN  { a(<<v(384, 5)>>, <<"text a">>, <<[title |-> "A"]>>),
          a(<<v(384, 1), v(384, 4)>>, <<"text b", "text c">>,
            <<[title |-> "B"], [title |-> "C"]>>),
          a(<<v(1536, 2)>>, <<"text d">>, <<[title |-> "D"]>>),
          a(<<v(384, 4), v(1536, 1)>>, <<"text b", "text c">>,
            <<[title |-> "B"], [title |-> "C"]>>),
          a(<<>>, <<>>, <<>>),
          a(<<>>, <<"text a">>, <<[title |-> "A"]>>),
          a(<<v(384, 5)>>, <<>>, <<>>),
          a(<<v(384, 1), v(384, 4)>>, <<"text a">>, <<[title |-> "A"]>>),
          a(<<v(384, 5)>>, <<"text b", "text c">>, <<[title |-> "B"]>>),
          a(<<v(384, 5)>>, <<"text a">>, <<>>) }

\* the queries of search: vectors of either dimension
QueryVectors ==
    {[dim |-> d, pos |-> q] : d \in Dimensions, q \in {0, 3}}

TopKs == 1..3

InitIndex ==
    /\ api_key = FALSE
    /\ conversations = [s \in Sessions |-> <<>>]
    /\ appended = [s \in Sessions |-> <<>>]
    /\ data_store = InitialDataStore
    /\ task = [t \in Tasks |-> IdleTask]
    /\ calls = 0
    /\ chunking = IdleChunking
    /\ pipeline = IdlePipeline
    /\ vector_store \in {NewVectorStore(d) : d \in Dimensions}
    /\ disk = EmptyDisk
    /\ index_call = NoCall
    /\ snapshot = NoSnapshot

IndexUnchanged ==
    UNCHANGED <<api_key, conversations, appended, data_store, task, calls,
                chunking, pipeline>>

\* VectorStore(dimension): another store object, as a restarted process
\* makes one
NewStoreCall(dimension) ==
    /\ index_call.n < MaxIndexCalls
    /\ vector_store' = NewVectorStore(dimension)
    /\ index_call' = [op |-> "new", n |-> index_call.n + 1]
    /\ UNCHANGED <<disk, snapshot>>
    /\ IndexUnchanged

\* add_documents(embeddings, documents, metadata)
AddDocumentsCall(embeddings, documents, metadata) ==
    /\ index_call.n < MaxIndexCalls
    /\ vector_store' = AddDocuments(vector_store, embeddings, documents,
                                    metadata)
    /\ index_call' =
           [op |-> "add_documents", n |-> index_call.n + 1,
            embeddings |-> embeddings, documents |-> documents,
            metadata |-> metadata, before |-> vector_store,
            raised |-> AddDocumentsRaises(vector_store, embeddings,
                                          documents, metadata)]
    /\ UNCHANGED <<disk, snapshot>>
    /\ IndexUnchanged

\* search(query_embedding, top_k)
SearchCall(query_embedding, top_k) ==
    /\ index_call.n < MaxIndexCalls
    /\ index_call' =
           [op |-> "search", n |-> index_call.n + 1,
            query_embedding |-> query_embedding, top_k |-> top_k,
            raised |-> SearchRaises(vector_store, query_embedding, top_k),
            results |-> IF SearchRaises(vector_store, query_embedding, top_k)
                        THEN <<>>
                        ELSE Search(vector_store, query_embedding, top_k)]
    /\ UNCHANGED <<vector_store, disk, snapshot>>
    /\ IndexUnchanged

\* save()
SaveCall(outcome) ==
    /\ index_call.n < MaxIndexCalls
    /\ disk' = Save(vector_store, disk, outcome)
    /\ index_call' = [op |-> "save", n |-> index_call.n + 1,
                      raised |-> outcome # "saved"]
    /\ snapshot' = IF outcome = "saved"
                   THEN [taken |-> TRUE, store |-> vector_store]
                   ELSE IF outcome = "data_write_failed" THEN NoSnapshot
                   ELSE snapshot
    /\ UNCHANGED vector_store
    /\ IndexUnchanged

\* load()
LoadCall(outcome) ==
    /\ index_call.n < MaxIndexCalls
    /\ vector_store' = Load(vector_store, disk, outcome)
    /\ index_call' = [op |-> "load", n |-> index_call.n + 1,
                      before |-> vector_store,
                      returned |-> LoadSucceeds(disk, outcome)]
    /\ UNCHANGED <<disk, snapshot>>
    /\ IndexUnchanged

\* clear()
ClearCall ==
    /\ index_call.n < MaxIndexCalls
    /\ vector_store' = Clear(vector_store)
    /\ index_call' = [op |-> "clear", n |-> index_call.n + 1]
    /\ UNCHANGED <<disk, snapshot>>
    /\ IndexUnchanged

NextIndex ==
    \/ \E d \in Dimensions : NewStoreCall(d)
    \/ \E a \in AddArguments :
           AddDocumentsCall(a.embeddings, a.documents, a.metadata)
    \/ \E q \in QueryVectors, k \in TopKs : SearchCall(q, k)
    \/ \E o \in SaveOutcomes : SaveCall(o)
    \/ \E o \in LoadOutcomes : LoadCall(o)
    \/ ClearCall

SpecIndex == InitIndex /\ [][NextIndex]_vars

-----------------------------------------------------------------------------
(* The pipeline over restarts of the process: every start runs            *)
(* RAGPipeline.initialize on the files the starts before it left, with    *)
(* the OPENAI_API_KEY and the documents directory of that start           *)

\* contents of the documents directory, as _load_documents returns them
ManualDocument ==
    [content |-> <<"L", "a", "p", "t", "o", "p", " ", "P", "r", "o">>,
     title |-> <<"M", "a", "n", "u", "a", "l">>, product_id |-> 3,
     category |-> <<"l", "a", "p", "t", "o", "p", "s">>,
     doc_type |-> <<"p", "r", "o", "d", "u", "c", "t", "_", "m", "a", "n",
                    "u", "a", "l", "s">>]

FaqDocument ==
    [question |-> <<"R", "e", "t", "u", "r", "n", "?">>,
     answer |-> <<"3", "0", " ", "d", "a", "y", "s">>,
     doc_type |-> <<"f", "a", "q", "s">>]

NoteDocument ==
    [title |-> <<"N", "o", "t", "e">>,
     doc_type |-> <<"p", "o", "l", "i", "c", "i", "e", "s">>]

EmptyDocument ==
    [content |-> <<>>, title |-> <<"E", "m", "p", "t", "y">>,
     doc_type |-> <<"p", "o", "l", "i", "c", "i", "e", "s">>]

DocumentSets ==
    { <<>>, <<ManualDocument>>, <<ManualDocument, FaqDocument, NoteDocument>>,
      <<EmptyDocument>> }

InitInit ==
    /\ api_key = FALSE
    /\ conversations = [s \in Sessions |-> <<>>]
    /\ appended = [s \in Sessions |-> <<>>]
    /\ data_store = InitialDataStore
    /\ task = [t \in Tasks |-> IdleTask]
    /\ calls = 0
    /\ chunking = IdleChunking
    /\ pipeline = IdlePipeline
    \* the pipeline has no store before initialize; the first start makes it
    /\ vector_store = NewVectorStore(GetDimension(FALSE))
    /\ disk = EmptyDisk
    /\ index_call = NoCall
    /\ snapshot = NoSnapshot

InitUnchanged ==
    UNCHANGED <<conversations, appended, data_store, task, calls, chunking,
                snapshot>>

\* the process starts: lifespan runs RAGPipeline.initialize
StartProcess(key, load_outcome, documents, embed_raises, save_outcome) ==
    /\ pipeline.starts < MaxStarts
    /\ LET init == Initialize(key, disk, load_outcome, documents,
                              embed_raises, save_outcome)
       IN  /\ api_key' = key
           /\ vector_store' = init.store
           /\ disk' = init.files
           /\ pipeline' =
                  [pc |-> IF init.raised THEN "failed" ELSE "ready",
                   starts |-> pipeline.starts + 1,
                   raised |-> init.raised,
                   restored |-> init.restored,
                   log |-> init.log,
                   files_present |-> disk.index_file.exists
                                         /\ disk.data_file.exists,
                   load_outcome |-> load_outcome,
                   found_documents |-> documents # <<>>,
                   files_before |-> disk]
    /\ index_call' = NoCall
    /\ InitUnchanged

\* RAGPipeline.retrieve(query, top_k) of a running process
RetrieveCall(pos, top_k) ==
    /\ pipeline.pc = "ready"
    /\ index_call.op = "none"
    /\ LET emb == [raised |-> FALSE, pos |-> pos,
                   dim |-> GetDimension(api_key)]
           r == Retrieve(vector_store, emb, top_k)
       IN  index_call' = [op |-> "retrieve", n |-> 1, query_embedding |-> emb,
                          top_k |-> top_k, raised |-> r.raised,
                          results |-> r.results]
    /\ UNCHANGED <<api_key, vector_store, disk, pipeline>>
    /\ InitUnchanged

NextInit ==
    \/ \E key \in BOOLEAN, lo \in LoadOutcomes, docs \in DocumentSets,
          er \in BOOLEAN, so \in SaveOutcomes :
           StartProcess(key, lo, docs, er, so)
    \/ \E pos \in {0, 8}, k \in {2, 3} : RetrieveCall(pos, k)

SpecInit == InitInit /\ [][NextInit]_vars

-----------------------------------------------------------------------------
(* Properties *)

Range(seq) == {seq[i] : i \in 1..Len(seq)}

LastN(seq, n) ==
    IF Len(seq) <= n THEN seq ELSE SubSeq(seq, Len(seq) - n + 1, Len(seq))

\* the tasks whose handler has returned a result bag
Routed(t) == task[t].pc \in {"routed", "composed", "returned"}

NeedsOrderId == {"order_status", "complaint", "refund", "delivery"}

\* C1: the stored log of a session never exceeds 2*max_history entries and
\* is the last min(n, 2*max_history) of the n messages appended to it, in
\* the order they were appended.
C1_LogIsLatestAppends ==
    \A s \in Sessions :
        /\ Len(conversations[s]) <= 2 * max_history
        /\ conversations[s] = LastN(appended[s], 2 * max_history)

\* C1 witness: 2*max_history + 3 messages were appended and the log holds
\* the 2*max_history latest, from the fourth on.
C1_Witness ==
    \E s \in Sessions :
        /\ Len(appended[s]) = 2 * max_history + 3
        /\ Len(conversations[s]) = 2 * max_history
        /\ conversations[s][1] = appended[s][4]
        /\ conversations[s][2 * max_history] = appended[s][2 * max_history + 3]

\* C2: a process_message call in which a step after the user-turn append
\* raised has returned a response to its caller: the fixed apology, intent
\* error, no sources, the failure detail in the metadata only; and the
\* user turn of the message is in the session log.
C2_FailureReturnsApology ==
    \A t \in Tasks :
        task[t].pc = "failed" =>
            /\ task[t].result # NoResult
            /\ task[t].result.response = Apology
            /\ task[t].result.intent = "error"
            /\ task[t].result.sources = <<>>
            /\ DOMAIN task[t].result.metadata = {"error"}
            /\ [role |-> "user", content |-> <<task[t].message>>]
                   \in Range(conversations[task[t].session_id])

\* C2 witness: the retrieval of a call raised and the call has ended.
C2_Witness ==
    \E t \in Tasks :
        /\ task[t].pc = "failed"
        /\ task[t].embedding.raised
        /\ task[t].result.intent = "error"

\* what the answers of the model mean once trimmed and lowercased
ExpectedIntentOfAnswer ==
    ("complaint" :> "complaint") @@ ("refund" :> "refund")
    @@ (" Delivery\n" :> "delivery") @@ ("comparison" :> "comparison")
    @@ ("order_status" :> "order_status") @@ ("refunds" :> "general")

\* C3: the classifier yields one of the seven tags only, an answer of the
\* model that is not exactly a tag after trimming and lowercasing yields
\* general, the intent of a response is one of the seven tags or error,
\* and error is the intent only of a call that failed.
C3_IntentInClosedSet ==
    \A t \in Tasks :
        /\ task[t].pc \notin {"idle", "received"} =>
               task[t].intent \in ValidIntents
        /\ (task[t].pc \notin {"idle", "received"} /\ task[t].model_called
                /\ ~task[t].model_raised) =>
               task[t].intent = ExpectedIntentOfAnswer[task[t].model_text]
        /\ task[t].result # NoResult =>
               /\ task[t].result.intent \in ValidIntents \cup {"error"}
               /\ task[t].result.intent = "error" <=> task[t].pc = "failed"
               /\ task[t].pc = "returned" =>
                      task[t].result.intent = task[t].intent

\* C3 witness: the model answered a tag in another case with blanks around
\* it, and the response carries the tag.
C3_Witness ==
    \E t \in Tasks :
        /\ task[t].pc = "returned"
        /\ task[t].model_text = " Delivery\n"
        /\ task[t].result.intent = "delivery"

\* C4: when no client is configured and when the model call made for the
\* classification fails, the intent is the one the keyword matcher yields
\* for the message.
C4_KeywordFallbackOnFailure ==
    \A t \in Tasks :
        (task[t].pc \notin {"idle", "received"}
            /\ (~task[t].model_called \/ task[t].model_raised)) =>
            task[t].intent = KeywordIntent[task[t].message]

PriorityOrder ==
    <<"order_status", "complaint", "refund", "delivery", "comparison",
      "product_info">>

\* the first category, in the priority order, one of whose keywords occurs
\* in the lowercased message; general when none does
FirstMatchingCategory ==
    [m \in Corpus |->
        LET hits == {k \in 1..Len(PriorityOrder) :
                        ContainsAny(Lower(CharsOf[m]),
                                    IntentKeywords[PriorityOrder[k]])}
        IN  IF hits = {} THEN "general"
            ELSE PriorityOrder[CHOOSE k \in hits : \A j \in hits : k <= j]]

\* C5: the keyword fallback yields, for a message, the first category in
\* the order order_status, complaint, refund, delivery, comparison,
\* product_info one of whose keywords occurs in it, general only when no
\* category matches, and the same intent for the same message.
C5_KeywordPriority ==
    /\ \A t \in Tasks :
        (task[t].pc \notin {"idle", "received"} /\ ~task[t].model_called) =>
            task[t].intent = FirstMatchingCategory[task[t].message]
    /\ \A t, u \in Tasks :
        (/\ task[t].pc \notin {"idle", "received"}
         /\ task[u].pc \notin {"idle", "received"}
         /\ ~task[t].model_called /\ ~task[u].model_called
         /\ task[t].message = task[u].message) =>
            task[t].intent = task[u].intent

\* C5 witness: a message with keywords of the order and of the refund
\* category was classified by the keywords as order_status.
C5_Witness ==
    \E t \in Tasks :
        /\ task[t].pc = "returned"
        /\ ~task[t].model_called
        /\ task[t].message = "I want to return ORD-1234"
        /\ ContainsAny(Lower(CharsOf[task[t].message]), IntentKeywords.refund)
        /\ task[t].intent = "order_status"

\* C6: a failure of the classification call does not end the message: the
\* intent is general, the message is routed, and it ends in the except
\* branch only if its retrieval raised; a returned message was composed
\* and its assistant turn recorded.
C6_ClassifierFailureContinues ==
    \A t \in Tasks :
        task[t].model_raised =>
            /\ task[t].pc \in {"classified", "routed", "composed", "returned",
                               "failed"}
            /\ task[t].intent = "general"
            /\ task[t].pc = "failed" => task[t].embedding.raised
            /\ task[t].pc \in {"routed", "composed", "returned"} =>
                   task[t].retrieved = <<2>>
            /\ task[t].pc = "returned" =>
                   /\ task[t].result.intent = "general"
                   /\ [role |-> "assistant", content |-> task[t].response_text]
                          \in Range(conversations[task[t].session_id])

\* C6 witness: the classification call of a message failed and the message
\* was routed, composed by the model, recorded and returned.
C6_Witness ==
    \E t \in Tasks :
        /\ task[t].model_raised
        /\ task[t].pc = "returned"
        /\ task[t].composed_by_model
        /\ task[t].message = "Where is my order ORD-1234?"
        /\ Len(conversations[task[t].session_id]) >= 2

\* C7: for the intents order_status, complaint, refund and delivery, a
\* message without an order identifier is answered by the literal request
\* for the identifier: no DataStore operation, no comparison, no retrieval
\* and no call of the generative model for the response.
C7_MissingOrderIdShortCircuits ==
    \A t \in Tasks :
        (/\ task[t].pc \in {"routed", "composed", "returned", "failed"}
         /\ task[t].intent \in NeedsOrderId
         /\ ExtractOrderId(task[t].message) = "") =>
            /\ task[t].pc # "failed"
            /\ task[t].ops = <<>>
            /\ task[t].compared = <<>>
            /\ task[t].retrieved = <<>>
            /\ task[t].data = [success |-> FALSE,
                               message |-> AskOrderId[task[t].intent]]
            /\ task[t].pc \in {"composed", "returned"} =>
                   /\ task[t].response_text = AskOrderId[task[t].intent]
                   /\ ~task[t].composed_by_model
            /\ task[t].pc = "returned" =>
                   task[t].result.response = AskOrderId[task[t].intent]

\* C7 witness: a refund message without an identifier was answered by the
\* request for the identifier.
C7_Witness ==
    \E t \in Tasks :
        /\ task[t].pc = "returned"
        /\ task[t].intent = "refund"
        /\ task[t].message = "refund and shipping cost"
        /\ task[t].result.response =
               <<"Please provide your order ID (format: ORD-XXXX) to check refund status.">>

\* C8: for the intent comparison, the comparison collaborator is invoked
\* exactly when two product identifiers or more are extracted, with the
\* extracted identifiers; with fewer, the result bag is the one of the
\* product_info path, a retrieval with top_k = 3.
C8_ComparisonNeedsTwoIds ==
    \A t \in Tasks :
        (task[t].pc \in {"routed", "composed", "returned", "failed"}
            /\ task[t].intent = "comparison") =>
            LET ids == ExtractProductIds(task[t].message)
            IN  /\ task[t].compared # <<>> <=> Len(ids) >= 2
                /\ Len(ids) >= 2 =>
                       /\ task[t].compared = <<ids>>
                       /\ task[t].retrieved = <<>>
                /\ Len(ids) < 2 =>
                       /\ task[t].retrieved = <<3>>
                       /\ task[t].pc # "failed" =>
                              task[t].data =
                                  HandleProductInfo(data_store, vector_store,
                                                    task[t].message,
                                                    task[t].embedding).result

\* C8 witness: a comparison message with one valid identifier got the
\* product_info bag of a non-empty retrieval.
C8_Witness ==
    \E t \in Tasks :
        /\ task[t].pc = "routed"
        /\ task[t].intent = "comparison"
        /\ task[t].message = "compare 3 vs 700"
        /\ task[t].compared = <<>>
        /\ task[t].data.metadata.num_results = 3

\* C9: when the result bag carries a message, the response text is that
\* message and the generative model is not called for the response; the
\* model is called only for a bag without a message.
C9_ReadyMessageVerbatim ==
    \A t \in Tasks :
        task[t].pc \in {"composed", "returned"} =>
            /\ "message" \in DOMAIN task[t].data =>
                   /\ task[t].response_text = task[t].data.message
                   /\ ~task[t].composed_by_model
                   /\ task[t].pc = "returned" =>
                          task[t].result.response = task[t].data.message
            /\ task[t].composed_by_model => "message" \notin DOMAIN task[t].data

\* C9 witness: a successful complaint carried a message, which is the
\* response.
C9_Witness ==
    \E t \in Tasks :
        /\ task[t].pc = "returned"
        /\ "complaint_id" \in DOMAIN task[t].data
        /\ task[t].data.success
        /\ task[t].result.response = task[t].data.message
        /\ ~task[t].composed_by_model

\* the not-found messages of the tools
NotFoundMessages(order_id) ==
    { <<"Order ", order_id, " not found. Please check the order ID.">>,
      <<"Order ", order_id, " not found. Cannot create complaint.">>,
      <<"Order ", order_id, " not found.">> }

\* what C10 says of a routed call
AnsweredNotFound(t) ==
    /\ task[t].pc # "failed"
    /\ task[t].data.success = FALSE
    /\ task[t].data.message \in NotFoundMessages(ExtractOrderId(task[t].message))
    /\ "create_complaint" \notin Range(task[t].ops)
    /\ "create_refund" \notin Range(task[t].ops)
    /\ \A i \in 1..Len(data_store.complaints) :
           data_store.complaints[i].order_id # ExtractOrderId(task[t].message)
    /\ task[t].pc \in {"composed", "returned"} =>
           task[t].response_text = task[t].data.message
    /\ task[t].pc = "returned" =>
           /\ task[t].result.response = task[t].data.message
           /\ task[t].result.intent = task[t].intent
           /\ (~task[t].model_called
                  /\ task[t].message = "Where is my order ORD-1234?") =>
                  task[t].result.intent = "order_status"

\* a call whose intent needs an order identifier and whose message names
\* an order that is not stored
NamesUnknownOrder(t) ==
    /\ task[t].pc \in {"routed", "composed", "returned", "failed"}
    /\ task[t].intent \in NeedsOrderId
    /\ ExtractOrderId(task[t].message) # ""
    /\ GetOrder(data_store, ExtractOrderId(task[t].message)) = None

\* C10 as stated: for an order identifier that matches no stored order,
\* every handler operation of the chat path answers success:false with a
\* not-found message, creates no complaint and no refund, and the response
\* is that message with the intent as classified.
C10_UnknownOrderNotFound ==
    \A t \in Tasks : NamesUnknownOrder(t) => AnsweredNotFound(t)

\* C10 amended: the same, for the refund status only when no refund is
\* stored for the identifier and for the delivery status only when no
\* delivery is stored for it.
C10_UnknownOrderWithoutRecordNotFound ==
    \A t \in Tasks :
        (/\ NamesUnknownOrder(t)
         /\ (task[t].intent = "refund" /\ ~RequestsRefund[task[t].message]) =>
                GetRefund(data_store, ExtractOrderId(task[t].message)) = None
         /\ task[t].intent = "delivery" =>
                GetDelivery(data_store, ExtractOrderId(task[t].message)) = None)
            => AnsweredNotFound(t)

\* C10 witness: scenario A, with no client configured.
C10_Witness ==
    \E t \in Tasks :
        /\ task[t].pc = "returned"
        /\ ~task[t].model_called
        /\ task[t].message = "Where is my order ORD-1234?"
        /\ task[t].result.intent = "order_status"
        /\ task[t].result.response =
               <<"Order ", "ORD-1234", " not found. Please check the order ID.">>

\* the pieces of text occur in sub, in one stretch
Incorporates(text, sub) ==
    \E i \in 1..(Len(text) - Len(sub) + 1) :
        SubSeq(text, i, i + Len(sub) - 1) = sub

ScenarioB == "compare 3 and 7"

RecommendationB ==
    <<"Based on ratings and features, ", "Phone X", " ", "(rated ", "5",
      "/5) appears to be the best option.">>

\* process_message calls on scenario B whose intent is comparison and
\* whose handler has returned
ComparesScenarioB(t) ==
    /\ task[t].pc \in {"routed", "composed", "returned"}
    /\ task[t].message = ScenarioB
    /\ task[t].intent = "comparison"

\* C11 as stated: for "compare 3 and 7" the comparison collaborator is
\* invoked with [3,7] and the response incorporates both product names
\* and the recommendation sentence.
C11_ResponseNamesBothProducts ==
    \A t \in Tasks :
        ComparesScenarioB(t) =>
            /\ task[t].compared = << <<3, 7>> >>
            /\ task[t].pc \in {"composed", "returned"} =>
                   /\ Incorporates(task[t].response_text, <<"Laptop Pro">>)
                   /\ Incorporates(task[t].response_text, <<"Phone X">>)
                   /\ Incorporates(task[t].response_text, RecommendationB)

\* C11 amended: the collaborator is invoked with [3,7], the result bag
\* holds both products and the recommendation, the generative model is
\* called with a context that incorporates both names and the
\* recommendation sentence, and the response is the answer of the model,
\* or the limited-mode text when no client is configured or the call fails.
C11_ContextNamesBothProducts ==
    \A t \in Tasks :
        ComparesScenarioB(t) =>
            /\ task[t].compared = << <<3, 7>> >>
            /\ task[t].data.metadata.product_ids = <<3, 7>>
            /\ [k \in 1..Len(task[t].data.comparison.products) |->
                   task[t].data.comparison.products[k].name]
                   = <<"Laptop Pro", "Phone X">>
            /\ task[t].data.comparison.recommendation = RecommendationB
            /\ task[t].pc \in {"composed", "returned"} =>
                   /\ task[t].composed_by_model
                   /\ \E i \in 1..Len(task[t].prompt) :
                          /\ task[t].prompt[i].role = "system"
                          /\ Incorporates(task[t].prompt[i].content,
                                 <<"Comparing products: ", "Laptop Pro",
                                   "Phone X">>)
                          /\ Incorporates(task[t].prompt[i].content,
                                 <<"Recommendation: ">> \o RecommendationB)
                   /\ \/ task[t].response_text = <<FallbackResponseText>>
                      \/ /\ api_key
                         /\ \E o \in GenerationOutcomes :
                                ~o.raised /\ task[t].response_text = o.text

\* C11 witness: scenario B with no client configured: classified by the
\* keywords, compared, and answered with the limited-mode text.
C11_Witness ==
    \E t \in Tasks :
        /\ ComparesScenarioB(t)
        /\ task[t].pc = "returned"
        /\ ~task[t].model_called
        /\ task[t].compared = << <<3, 7>> >>
        /\ task[t].result.response = <<FallbackResponseText>>

\* the least integer not below a / b, for b > 0
CeilDiv(a, b) == -((-a) \div b)

Characters(from, to) == [i \in 1..(to - from) |-> from + i]

\* what is common to C13 as stated and as amended: chunk k covers the
\* characters [k*(W-O), min(k*(W-O)+W, L)), is not empty and at most W
\* long, and length 520 with W = 500 and O = 50 gives [0,500) and [450,520)
ChunkWindows ==
    LET step == chunking.chunk_size - chunking.overlap
    IN  /\ \A k \in 0..(Len(chunking.chunks) - 1) :
              /\ chunking.chunks[k + 1].text
                     = Characters(k * step,
                                  Min(k * step + chunking.chunk_size,
                                      chunking.doc_len))
              /\ Len(chunking.chunks[k + 1].text) >= 1
              /\ Len(chunking.chunks[k + 1].text) <= chunking.chunk_size
        /\ (chunking.doc_len = 520 /\ chunking.chunk_size = 500
                /\ chunking.overlap = 50) =>
               /\ Len(chunking.chunks) = 2
               /\ chunking.chunks[1].text = Characters(0, 500)
               /\ chunking.chunks[2].text = Characters(450, 520)

\* C13 as stated: the windows above, and only the final chunk may be
\* shorter than W.
C13_OnlyFinalChunkShort ==
    chunking.pc = "returned" =>
        /\ ChunkWindows
        /\ \A k \in 1..(Len(chunking.chunks) - 1) :
               Len(chunking.chunks[k].text) = chunking.chunk_size

\* C13 amended: the windows above, and a chunk is shorter than W exactly
\* when its window reaches past the end of the document; the chunks after
\* a short chunk are short too.
C13_ChunkWindows ==
    chunking.pc = "returned" =>
        /\ ChunkWindows
        /\ \A k \in 0..(Len(chunking.chunks) - 1) :
               Len(chunking.chunks[k + 1].text) < chunking.chunk_size
                   <=> k * (chunking.chunk_size - chunking.overlap)
                           + chunking.chunk_size > chunking.doc_len
        /\ \A j, k \in 1..Len(chunking.chunks) :
               (j < k /\ Len(chunking.chunks[j].text) < chunking.chunk_size)
                   => Len(chunking.chunks[k].text) < chunking.chunk_size

\* C13 witness: scenario C, and a document of length 920 whose second and
\* third chunk are both shorter than the chunk size.
C13_Witness ==
    /\ chunking.pc = "returned"
    /\ chunking.chunk_size = 500
    /\ chunking.overlap = 50
    /\ \/ /\ chunking.doc_len = 520
          /\ Len(chunking.chunks) = 2
          /\ chunking.chunks[2].text = Characters(450, 520)
       \/ /\ chunking.doc_len = 920
          /\ Len(chunking.chunks) = 3
          /\ Len(chunking.chunks[2].text) = 470
          /\ Len(chunking.chunks[3].text) = 20

\* C14 as stated: an add_documents call whose three lists are not of
\* equal length, or are empty, stores nothing: the index, the texts and
\* the metadata are as before the call.
C14_AddRejectsUnequalOrEmpty ==
    index_call.op = "add_documents" =>
        ((\/ Len(index_call.embeddings) # Len(index_call.documents)
          \/ Len(index_call.documents) # Len(index_call.metadata)
          \/ index_call.embeddings = <<>>
          \/ index_call.documents = <<>>
          \/ index_call.metadata = <<>>)
            => /\ vector_store.index = index_call.before.index
               /\ vector_store.documents = index_call.before.documents
               /\ vector_store.metadata = index_call.before.metadata)

\* the distances of the results of a search do not decrease
NonDecreasing(results) ==
    \A k \in 1..(Len(results) - 1) : results[k][3] <= results[k + 1][3]

\* every result is the text and the metadata stored at one position, with
\* the distance of the vector of that position
StoredPairs(vs, query_embedding, results) ==
    \A k \in 1..Len(results) :
        \E i \in 1..Len(vs.documents) :
            /\ i <= Len(vs.metadata)
            /\ i <= Len(vs.index)
            /\ results[k][1] = vs.documents[i]
            /\ results[k][2] = vs.metadata[i]
            /\ results[k][3] = Distance(vs.index[i], query_embedding)

\* C16: a search that returns gives at most min(k, number of vectors)
\* results, in non-decreasing order of distance, each a stored text with
\* its metadata, and none when the index is empty; so does retrieve
\* without a top_k, with the configured default as k.
C16_SearchBounded ==
    /\ index_call.op = "search" =>
           /\ Len(vector_store.index) = 0 =>
                  ~index_call.raised /\ index_call.results = <<>>
           /\ ~index_call.raised =>
                  /\ Len(index_call.results)
                         <= Min(index_call.top_k, Len(vector_store.index))
                  /\ NonDecreasing(index_call.results)
                  /\ StoredPairs(vector_store, index_call.query_embedding,
                                 index_call.results)
    /\ \A q \in QueryVectors :
           LET r == RetrieveDefault(vector_store,
                                    [raised |-> FALSE, pos |-> q.pos,
                                     dim |-> q.dim])
           IN  ~r.raised =>
                   /\ Len(r.results)
                          <= Min(top_k_default, Len(vector_store.index))
                   /\ NonDecreasing(r.results)
                   /\ StoredPairs(vector_store, q, r.results)
                   /\ Len(vector_store.index) = 0 => r.results = <<>>

\* C16 witness: a search for more results than the index has vectors
\* returned all of them, the later added one first.
C16_Witness ==
    /\ index_call.op = "search"
    /\ ~index_call.raised
    /\ index_call.top_k = 3
    /\ Len(vector_store.index) = 2
    /\ Len(index_call.results) = 2
    /\ index_call.results[1][1] = vector_store.documents[2]
    /\ index_call.results[1][3] < index_call.results[2][3]

\* C17: after a save that wrote both files, a load that returns True
\* leaves the store with the vectors, texts, metadata and dimension it
\* had at the save, whatever store it was loaded into, and every search
\* gives what it gave at the save.
C17_SaveLoadRoundTrip ==
    (index_call.op = "load" /\ index_call.returned /\ snapshot.taken) =>
        /\ vector_store.index = snapshot.store.index
        /\ vector_store.index_d = snapshot.store.index_d
        /\ vector_store.documents = snapshot.store.documents
        /\ vector_store.metadata = snapshot.store.metadata
        /\ vector_store.dimension = snapshot.store.dimension
        /\ \A q \in QueryVectors, k \in TopKs :
               /\ SearchRaises(vector_store, q, k)
                      <=> SearchRaises(snapshot.store, q, k)
               /\ ~SearchRaises(vector_store, q, k) =>
                      Search(vector_store, q, k) = Search(snapshot.store, q, k)

\* C17 witness: a store with two entries was saved and later loaded into
\* a store that held nothing.
C17_Witness ==
    /\ index_call.op = "load"
    /\ index_call.returned
    /\ snapshot.taken
    /\ index_call.before.documents = <<>>
    /\ Len(vector_store.index) = 2
    /\ Len(Search(vector_store, [dim |-> vector_store.index_d, pos |-> 3], 2))
           = 2

\* C18: every vector of the index has the dimension of the index, and an
\* add_documents call with a vector of another length leaves the index,
\* the texts and the metadata as they were; it raises unless it is
\* dismissed for an empty list.
C18_AddChecksDimension ==
    /\ \A i \in 1..Len(vector_store.index) :
           vector_store.index[i].dim = vector_store.index_d
    /\ (/\ index_call.op = "add_documents"
        /\ \E i \in 1..Len(index_call.embeddings) :
               index_call.embeddings[i].dim # index_call.before.index_d) =>
           /\ vector_store = index_call.before
           /\ index_call.documents # <<>> => index_call.raised

\* C18 witness: a call with one vector of the dimension of the index and
\* one of another raised and stored nothing.
C18_Witness ==
    /\ index_call.op = "add_documents"
    /\ index_call.raised
    /\ Len(index_call.embeddings) = 2
    /\ index_call.embeddings[1].dim = index_call.before.index_d
    /\ index_call.embeddings[2].dim # index_call.before.index_d
    /\ Len(index_call.before.index) >= 1
    /\ vector_store = index_call.before

\* C15 as stated: in every state the starts of the process reach, the
\* index holds as many vectors as the store holds texts and metadata
\* records, and vector i is the embedding of text i.
C15_ListsAligned ==
    pipeline.pc # "created" =>
        /\ Len(vector_store.index) = Len(vector_store.documents)
        /\ Len(vector_store.documents) = Len(vector_store.metadata)
        /\ \A i \in 1..Len(vector_store.index) :
               vector_store.index[i].pos = EmbedPos(vector_store.documents[i])

BuildSteps ==
    <<"load_documents", "chunk", "embed_batch", "add_documents", "save">>

\* C19 as stated: initialize tries the restore first; after a successful
\* restore nothing else is done, and after an absent or failed restore
\* every step of the build is taken exactly once.
C19_RebuildRunsWholeBuild ==
    pipeline.pc # "created" =>
        /\ pipeline.restored
               <=> (pipeline.files_present /\ pipeline.load_outcome = "loaded")
        /\ pipeline.restored => pipeline.log = <<"load">>
        /\ ~pipeline.restored => pipeline.log = <<"load">> \o BuildSteps

\* C19 amended: initialize tries the restore first; after a successful
\* restore nothing else is done and the files are as they were; after an
\* absent or failed restore the documents are loaded once and, if there
\* are any, the steps chunk, embed_batch, add_documents and save follow in
\* this order, each at most once, up to the first that raises; without
\* documents the build ends after the loading.
C19_RestoreFirstThenBuild ==
    pipeline.pc # "created" =>
        /\ pipeline.restored
               <=> (pipeline.files_present /\ pipeline.load_outcome = "loaded")
        /\ pipeline.restored =>
               /\ pipeline.log = <<"load">>
               /\ ~pipeline.raised
               /\ disk = pipeline.files_before
        /\ (~pipeline.restored /\ ~pipeline.found_documents) =>
               /\ pipeline.log = <<"load", "load_documents">>
               /\ ~pipeline.raised
               /\ disk = pipeline.files_before
        /\ (~pipeline.restored /\ pipeline.found_documents) =>
               /\ \E n \in 3..Len(BuildSteps) :
                      pipeline.log = <<"load">> \o SubSeq(BuildSteps, 1, n)
               /\ ~pipeline.raised => pipeline.log = <<"load">> \o BuildSteps
               /\ "save" \notin Range(pipeline.log) =>
                      disk = pipeline.files_before

\* C19 witness: a second start found the files of the first, could not
\* read them, and built and persisted the index again.
C19_Witness ==
    /\ pipeline.starts = 2
    /\ pipeline.files_present
    /\ pipeline.load_outcome = "index_read_failed"
    /\ ~pipeline.restored
    /\ ~pipeline.raised
    /\ pipeline.log = <<"load">> \o BuildSteps
    /\ Len(vector_store.documents) = 3

\* C20 as stated: after initialize has completed, by restore or by
\* rebuild, the dimension of the store and of its index is the dimension
\* of the embedding service, so that no retrieval hands search a query of
\* another dimension.
C20_DimensionMatchesProvider ==
    /\ pipeline.pc = "ready" =>
           /\ vector_store.dimension = GetDimension(api_key)
           /\ vector_store.index_d = GetDimension(api_key)
    /\ index_call.op = "retrieve" =>
           index_call.query_embedding.dim = vector_store.index_d

UserTurn(t) == [role |-> "user", content |-> <<task[t].message>>]

AssistantTurn(t) == [role |-> "assistant", content |-> task[t].response_text]

\* the steps of one message: Recorded and Returned are one step, no await
\* lies between them
StepOrder ==
    { <<"idle", "received">>, <<"returned", "received">>,
      <<"failed", "received">>, <<"received", "classified">>,
      <<"classified", "routed">>, <<"classified", "failed">>,
      <<"routed", "composed">>, <<"composed", "returned">> }

\* C22: the steps of a message occur in the order Received, Classified,
\* Routed, Composed, Recorded, Returned.  While a call is under way the
\* user turn of its message is the latest turn given to the log of its
\* session; nothing is classified before it is recorded, nothing routed
\* before the classification, nothing composed before the routing; the
\* assistant turn follows the user turn once the call has returned and holds
\* the composed text, which is the response.
C22_StepsInOrder ==
    /\ [](\A t \in Tasks :
            LET s == task[t].session_id
                k == task[t].user_index
            IN  /\ InCall(t) =>
                       /\ Len(appended[s]) = k
                       /\ appended[s][k] = UserTurn(t)
                       /\ conversations[s][Len(conversations[s])] = UserTurn(t)
                /\ task[t].pc = "received" =>
                       /\ task[t].intent = ""
                       /\ task[t].data = NoResult
                       /\ task[t].response_text = <<>>
                /\ task[t].pc = "classified" =>
                       /\ task[t].intent \in ValidIntents
                       /\ task[t].data = NoResult
                       /\ task[t].response_text = <<>>
                /\ task[t].pc = "routed" =>
                       /\ task[t].intent \in ValidIntents
                       /\ task[t].data # NoResult
                       /\ task[t].response_text = <<>>
                /\ task[t].pc = "composed" =>
                       /\ task[t].data # NoResult
                       /\ task[t].response_text # <<>>
                       /\ task[t].result = NoResult
                /\ task[t].pc = "returned" =>
                       /\ Len(appended[s]) > k
                       /\ appended[s][k] = UserTurn(t)
                       /\ appended[s][k + 1] = AssistantTurn(t)
                       /\ task[t].result.response = task[t].response_text)
    /\ [][\A t \in Tasks :
            task[t].pc # task'[t].pc =>
                <<task[t].pc, task'[t].pc>> \in StepOrder]_vars

\* C22 witness: a message whose response the model composed has been
\* returned, its two turns recorded one after the other
C22_Witness ==
    \E t \in Tasks :
        /\ task[t].pc = "returned"
        /\ task[t].composed_by_model
        /\ task[t].intent = "general"
        /\ appended[task[t].session_id]
               = <<UserTurn(t), AssistantTurn(t)>>
        /\ conversations[task[t].session_id]
               = <<UserTurn(t), AssistantTurn(t)>>

\* C25: when the model call of the composer raises, process_message
\* returns the fallback text as the response with the classified intent
\* and not the intent error, and records the fallback text as the
\* assistant turn.
C25_GenerationFailureFallsBack ==
    \A t \in Tasks :
        task[t].generation_raised =>
            /\ task[t].pc \in {"composed", "returned"}
            /\ task[t].response_text = <<FallbackResponseText>>
            /\ task[t].intent \in ValidIntents
            /\ task[t].pc = "returned" =>
                   /\ task[t].result.response = <<FallbackResponseText>>
                   /\ task[t].result.intent = task[t].intent
                   /\ task[t].result.intent # "error"
                   /\ appended[task[t].session_id][task[t].user_index + 1]
                          = [role |-> "assistant",
                             content |-> <<FallbackResponseText>>]
                   /\ Len(appended[task[t].session_id])
                          = task[t].user_index + 1 =>
                          conversations[task[t].session_id]
                              [Len(conversations[task[t].session_id])]
                              = [role |-> "assistant",
                                 content |-> <<FallbackResponseText>>]

\* C25 witness: a call whose composition failed has returned
C25_Witness ==
    \E t \in Tasks :
        /\ task[t].pc = "returned"
        /\ task[t].generation_raised
        /\ task[t].intent = "comparison"

\* whether the turn after position k of the log of session s, if there is
\* one, is the user turn of a later call
NextTurnIsLaterCall(s, k) ==
    Len(appended[s]) = k \/ appended[s][k + 1].role = "user"

\* C27: a call that failed has appended the user turn and nothing else; a
\* call that returned, clarifications included, has appended the user turn
\* and then one assistant turn whose content is the response it returned.
C27_AppendsPerCall ==
    \A t \in Tasks :
        LET s == task[t].session_id
            k == task[t].user_index
        IN  /\ task[t].pc = "failed" =>
                   /\ Len(appended[s]) >= k
                   /\ appended[s][k] = UserTurn(t)
                   /\ NextTurnIsLaterCall(s, k)
                   /\ task[t].result.intent = "error"
            /\ task[t].pc = "returned" =>
                   /\ Len(appended[s]) >= k + 1
                   /\ appended[s][k] = UserTurn(t)
                   /\ appended[s][k + 1]
                          = [role |-> "assistant",
                             content |-> task[t].result.response]
                   /\ NextTurnIsLaterCall(s, k + 1)

\* C27 witness: a clarification has been returned and recorded
C27_Witness ==
    \E t \in Tasks :
        /\ task[t].pc = "returned"
        /\ task[t].intent \in NeedsOrderId
        /\ task[t].data = Clarify(data_store, task[t].intent).result
        /\ Len(appended[task[t].session_id]) = 2

Stepping(t) == task'[t] # task[t]

\* whether a step changes no log but that of the session of the call that
\* takes it
OwnLogOnly ==
    \A s \in Sessions :
        conversations'[s] # conversations[s] =>
            \E t \in Tasks : Stepping(t) /\ task'[t].session_id = s

\* C23 as stated: the session map is the only mutable state the calls
\* share.  No step of a call changes the DataStore, and a step changes the
\* log of the session of its call and no other.
C23_OnlySessionMapShared ==
    [][data_store' = data_store /\ OwnLogOnly]_vars

\* C23 amended: the calls share the session map and the DataStore.  A step
\* changes the log of the session of its call and no other; the vector
\* store is left alone; the DataStore is changed by the handler step of a
\* complaint or a refund message, which adds records to the complaints or
\* the refunds of every session and leaves orders and deliveries alone;
\* and the calls of distinct sessions run one after the other.
C23_SessionLogsSeparate ==
    /\ [](\A t, u \in Tasks : InCall(t) /\ InCall(u) => t = u)
    /\ [][/\ OwnLogOnly
          /\ vector_store' = vector_store
          /\ data_store' # data_store =>
                 /\ data_store'.orders = data_store.orders
                 /\ data_store'.deliveries = data_store.deliveries
                 /\ \E t \in Tasks :
                        /\ task[t].pc = "classified"
                        /\ task'[t].pc = "routed"
                        /\ task[t].intent \in {"complaint", "refund"}]_vars

\* C23 witness: a refund request of the second session was refused because
\* of the refund the first session had initiated for the same order
C23_Witness ==
    /\ task[1].session_id = "s1" /\ task[1].pc = "returned"
    /\ "create_refund" \in Range(task[1].ops)
    /\ task[2].session_id = "s2" /\ task[2].pc = "returned"
    /\ task[2].message = task[1].message
    /\ task[2].ops = <<"get_order", "get_refund">>
    /\ task[2].data.success = FALSE

\* the refunds initiate_refund has created: those after the loaded ones
CreatedRefunds ==
    SubSeq(data_store.refunds, Len(SeedRefunds) + 1, Len(data_store.refunds))

\* C29: at most one refund created by initiate_refund exists for an order
\* and it is of an order that exists and had no refund; a step adds a
\* refund only as the handler step of a refund request, for an order
\* that exists and has no refund yet; a refund request for an order with a
\* refund answers success false and leaves the DataStore unchanged; a
\* refund status question leaves it unchanged.
C29_OneRefundPerOrder ==
    /\ [](/\ \A i, j \in 1..Len(CreatedRefunds) :
                CreatedRefunds[i].order_id = CreatedRefunds[j].order_id
                    => i = j
          /\ \A i \in 1..Len(CreatedRefunds) :
                /\ GetOrder(data_store, CreatedRefunds[i].order_id) # None
                /\ \A j \in 1..Len(SeedRefunds) :
                       SeedRefunds[j].order_id # CreatedRefunds[i].order_id)
    /\ [][\A t \in Tasks :
            (task[t].pc = "classified" /\ task'[t].pc # "classified") =>
                LET m == task[t].message
                    order_id == ExtractOrderId(m)
                    initiation == /\ task[t].intent = "refund"
                                  /\ order_id # ""
                                  /\ RequestsRefund[m]
                IN  /\ data_store'.refunds # data_store.refunds =>
                           /\ initiation
                           /\ GetOrder(data_store, order_id) # None
                           /\ GetRefund(data_store, order_id) = None
                           /\ Len(data_store'.refunds)
                                  = Len(data_store.refunds) + 1
                           /\ GetRefund(data_store', order_id).order_id
                                  = order_id
                           /\ task'[t].data.success = TRUE
                    /\ (initiation /\ GetRefund(data_store, order_id) # None)
                           => /\ task'[t].data.success = FALSE
                              /\ data_store' = data_store
                    /\ (task[t].intent = "refund" /\ ~initiation)
                           => data_store' = data_store]_vars

\* C29 witness: the second of two refund requests for one order was
\* refused and one refund of the order exists
C29_Witness ==
    /\ Len(CreatedRefunds) = 1
    /\ CreatedRefunds[1].order_id = "ORD-1001"
    /\ \E t \in Tasks :
           /\ task[t].pc = "returned"
           /\ task[t].intent = "refund"
           /\ task[t].message = "return ORD-1001 please"
           /\ task[t].data.success = FALSE
           /\ task[t].ops = <<"get_order", "get_refund">>

\* whether the composer of task t has built a prompt that the log of the
\* session still stands as the composer saw it
Composing(t) == task[t].pc = "composed" /\ task[t].composed_by_model

\* whether the entry before the last of a prompt is a context entry
HasContextEntry(prompt) ==
    /\ Len(prompt) > 2
    /\ prompt[Len(prompt) - 1].role = "system"

\* the entries of a prompt between the persona and the context entry or,
\* without one, the last entry
HistoryPart(prompt) ==
    SubSeq(prompt, 2,
           IF HasContextEntry(prompt) THEN Len(prompt) - 2
           ELSE Len(prompt) - 1)

\* C24: the prompt the composer hands to generate_with_history is the
\* system persona, then at most 6 messages, the latest of the session log
\* in stored order, then at most one context entry, then the current user
\* message: 9 entries at most.
C24_PromptShape ==
    \A t \in Tasks :
        Composing(t) =>
            LET prompt == task[t].prompt
                log == conversations[task[t].session_id]
                window == HistoryPart(prompt)
            IN  /\ Len(prompt) >= 2 /\ Len(prompt) <= 9
                /\ prompt[1] = [role |-> "system", content |-> SystemPersona]
                /\ prompt[Len(prompt)] = UserTurn(t)
                /\ Len(window) = Min(6, Len(log))
                /\ window = LastN(log, Len(window))
                /\ HasContextEntry(prompt) =>
                       prompt[Len(prompt) - 1].content[1]
                           = "Context for answering:\n"
                /\ \A i \in 1..Len(window) : window[i].role # "system"

\* C24 witness: a prompt of 9 entries, made when the log held more than 6
\* messages
C24_Witness ==
    \E t \in Tasks :
        /\ Composing(t)
        /\ Len(task[t].prompt) = 9
        /\ HasContextEntry(task[t].prompt)
        /\ Len(conversations[task[t].session_id]) > 6
        /\ api_key

\* C26 as stated: the current user message is in the prompt once, as the
\* last entry; the history window before it holds the latest turns of those
\* recorded before the current message.
C26_CurrentMessageOnce ==
    \A t \in Tasks :
        Composing(t) =>
            LET before == SubSeq(appended[task[t].session_id], 1,
                                 task[t].user_index - 1)
            IN  HistoryPart(task[t].prompt) = GetRecentHistory(before, 6)

\* C28 as stated: a load that returns False leaves the index, the texts,
\* the metadata and the dimension of the store as they were before the
\* call.
C28_FailedLoadLeavesStore ==
    (index_call.op = "load" /\ ~index_call.returned) =>
        /\ vector_store.index = index_call.before.index
        /\ vector_store.index_d = index_call.before.index_d
        /\ vector_store.documents = index_call.before.documents
        /\ vector_store.metadata = index_call.before.metadata
        /\ vector_store.dimension = index_call.before.dimension

Terminal(t) == task[t].pc \in {"returned", "failed"}

\* C30: provided every external call returns or raises, every call of
\* process_message that has started ends, returned or failed; it has no
\* response before it ends, one response when it has ended, with the intent
\* error exactly when it failed, and that response is not replaced.
C30_EveryCallEnds ==
    /\ \A t \in Tasks : InCall(t) ~> Terminal(t)
    /\ [](\A t \in Tasks :
            /\ InCall(t) => task[t].result = NoResult
            /\ Terminal(t) =>
                   /\ DOMAIN task[t].result
                          = {"response", "intent", "sources", "metadata"}
                   /\ task[t].result.response # <<>>
                   /\ task[t].pc = "failed" <=> task[t].result.intent = "error")
    /\ [][\A t \in Tasks :
            (Terminal(t) /\ task'[t].pc = task[t].pc) =>
                task'[t].result = task[t].result]_vars

\* C30 witness: the model calls of the classifier and of the composer both
\* raised and the call has returned a response
C30_Witness ==
    \E t \in Tasks :
        /\ task[t].pc = "returned"
        /\ task[t].model_raised
        /\ task[t].generation_raised
        /\ task[t].result.response = <<FallbackResponseText>>
        /\ task[t].result.intent = "general"

=============================================================================
